---- MODULE Spec2Model ----
(***************************************************************************)
(* A model of the nps server: the bridge (per-agent session table, the     *)
(* heartbeat sweep, teardown, link opening, handshake, config channel),    *)
(* the health-driven target sets, the per-agent connection counter and     *)
(* flow quota, the tunnel and host repositories, the P2P rendezvous, the   *)
(* port multiplexer and the secret connections.                            *)
(*                                                                         *)
(* Each subsystem has its own specification over the module's variables;   *)
(* a specification leaves the variables of the other subsystems unchanged. *)
(***************************************************************************)
EXTENDS Integers, Sequences, FiniteSets, TLC

----------------------------------------------------------------------------
(* Bounds and fixed finite universes                                       *)

\* bridge connections accepted during a run (each accept takes a fresh id)
MaxConns == 3
\* public flows accepted on the agent's tcp tunnel during a run
MaxFlows == 1

\* agent ids of the repository; agent 2 is the public-pool entry (NoDisplay)
Agents == {1, 2}
PubAgents == {2}

ConnIds == 1..MaxConns
FlowIds == 1..MaxFlows
\* a nil pointer (no connection, no mux)
Nil == 0

----------------------------------------------------------------------------
VARIABLES
    \* ---- bridge ----
    Client,     \* Bridge.Client: the session table, agent id -> session
    connSt,     \* per bridge connection: "unused", "open", "closed" (closed by the server)
    closeTok,   \* per bridge connection: the close-token was written to it
    peerGone,   \* per bridge connection: the peer end dropped, reads fail
    health,     \* per bridge connection: id of the agent whose health loop reads it, or Nil
    mux,        \* per bridge connection: "none", "open", "closed" (Mux.IsClose)
    closeQ,     \* senders blocked on the unbuffered CloseClient channel
    pingPhase,  \* flips at every heartbeat sweep
    flow,       \* per public flow: state, how its target was opened, mux carrier, agent, link
    ipVerify,   \* Bridge.ipVerify
    Register,   \* Bridge.Register: key GetIpByAddr(remote address) -> expiry time
    now,        \* the clock, in hours
    \* ---- history variables of the bridge (not program state) ----
    sigMiss,    \* per agent: sweeps in a row that found the session's signal missing
    runMiss,    \* per agent: sweeps in a row that found signal or tunnel missing
    dropAge,    \* per flow: -1, or sweeps seen since the signal dropped under the open flow
    regIp,      \* the IP of every peer that registered -> the expiry it registered last
    \* ---- repository and health-driven target sets ----
    Tasks,      \* JsonDb.Tasks: tunnel id -> Tunnel
    Hosts,      \* JsonDb.Hosts: host id -> Host
    got,        \* what the last GetRandomTarget returned, and for which object
    getPhase,   \* flips at every GetRandomTarget
    TaskIncreaseId, \* JsonDb.TaskIncreaseId: the last tunnel id handed out
    HostIncreaseId, \* JsonDb.HostIncreaseId: the last host id handed out
    down,       \* history: <<agent, target>> reported status=false and not status=true since
    \* ---- the per-agent connection counter ----
    MaxConn,    \* Client.MaxConn of the agent
    NowConn,    \* Client.NowConn of the agent
    pc,         \* per accept-handler goroutine: where it is in TunnelModeServer.Start's callback
    \* ---- agents of the repository and the handshake ----
    Clients,    \* JsonDb.Clients: agent id -> [VerifyKey, Status]
    verifyEer,  \* per bridge connection: VERIFY_EER was written to it
    \* ---- the config-channel loop (getConfig) ----
    cfgPc,      \* "idle", "loop", "done" (the loop returned), "panic" (the goroutine panicked)
    cfgConn,    \* the bridge connection the loop reads, or Nil
    cfgClient,  \* client.Id of the loop's client variable (0 for a client that was not stored)
    failTok,    \* WriteAddFail wrote the fail token to cfgConn
    ClientIncreaseId, \* JsonDb.ClientIncreaseId: the last agent id handed out
    cfgErr,     \* history: a NEW_* message failed, and the loop's agent when it arrived
    \* ---- the P2P rendezvous (P2PServer) ----
    p2p,        \* P2PServer.p2p: password -> [visitorAddr, providerAddr], "" for a nil address
    vpc,        \* per password: where the visitor's handleP2P goroutine is
    vi,         \* per password: the loop counter i of that goroutine
    udpOut,     \* the datagrams the server wrote: <<destination, payload>>
    elapsed,    \* history, per password: whole seconds the visitor's goroutine has slept
    provided,   \* history, per password: "no", or when the provider's packet came
    \* ---- the port multiplexer (PortMux, PortConn) ----
    pconn,      \* a connection on the shared port: what the peer sends, where process
                \* is, the PortConn built for it, what its reader got
    \* ---- secret connections and the flow quota ----
    secret,     \* the last connection taken from SecretChan: the hash it presented, the
                \* tunnel found, whether DealClient was started on it, whether it was closed
    FlowLimit,  \* Client.Flow.FlowLimit of the agent, in megabytes
    FlowUsed,   \* Client.Flow.ExportFlow + Client.Flow.InletFlow of the agent, in bytes
    \* ---- the SOCKS5 service ----
    socks,      \* the tunnel's account settings, and per connection: where its handler
                \* is, what the server wrote to it, the last command, a rejected login
    \* ---- the HTTPS server ----
    https,      \* httpsListenerMap, the listeners made per server name, and per
                \* accepted connection: where its goroutine is and its listener
    \* ---- the HTTP host proxy with its cache ----
    web,        \* the cached response of /img.png, the upstream streams opened, the
                \* host's outbound counter, the bytes written to clients, and per
                \* client connection: where handleHttp is and the requests forwarded
    \* ---- the rate limiter ----
    rate,       \* the token bucket: its capacity, tokens left, tokens added per
                \* second, NowRate; the last Get and the tokens before it
    \* ---- NEW_TASK with its port list ----
    nt,         \* the ports the agent already has tunnels on, and of the NEW_TASK
                \* request read: mode, the sizes of the expanded lists, the ports of
                \* the tunnels it stored, the token written
    \* ---- host lookup by name ----
    hm,         \* the request host looked up and whether a host was found
    \* ---- the agent-side prober ----
    hc,         \* HealthMaxFail, and per target: HealthMap, the failed probes in a
                \* row, what the latest check sent, whether a status 0 is standing,
                \* whether the latest probe was the first success after one
    \* ---- one tunnel under health reports and target reads ----
    lb,         \* the tunnel, the holders of the tunnel's lock and of its Target's
                \* lock, where the health reader and GetRandomTarget are, the report
                \* being applied, the outcome of the latest GetRandomTarget
    \* ---- a copy pair ----
    cp,         \* the two sockets, and per direction: where its task is, the error
                \* CopyBuffer returned, the chunks written; the wait-group; the join
    \* ---- the agent-side health scheduler ----
    hs,         \* the clock in half seconds, the deadline heap (Unix seconds), the
                \* interval and HealthNextTime of each config, where session is,
                \* when its timer fires
    \* ---- the port multiplexer's life ----
    mx,         \* whether the multiplexer, its channel and its listener are closed,
                \* where each classification task and each Accept on the
                \* sub-listener is, whether the program has panicked
    \* ---- HTTP proxy connections and the agents' connection counts ----
    hh          \* NowConn of each agent, and of each connection handleHttp serves:
                \* where it is, its host, isReset, the agent whose AddConn is
                \* deferred, the agent its open flow goes to

bridgeVars == <<Client, connSt, closeTok, peerGone, health, mux, closeQ, pingPhase,
                flow, ipVerify, Register, now, sigMiss, runMiss, dropAge, regIp>>

dbVars == <<Tasks, Hosts, got, getPhase, TaskIncreaseId, HostIncreaseId, down>>

connVars == <<MaxConn, NowConn, pc>>

authVars == <<Clients, verifyEer>>

\* the variables of the subsystems beside the bridge, the repository and the counter
cfgVars == <<cfgPc, cfgConn, cfgClient, failTok, ClientIncreaseId, cfgErr>>

\* the variables beside the bridge, the repository and the counter, without
\* the agents' table and without the handshake's variables
p2pVars == <<p2p, vpc, vi, udpOut, elapsed, provided>>

\* the subsystems that share no variable with the others
quotaVars == <<FlowLimit, FlowUsed>>

\* the services modelled one variable each
laterVars == <<socks, https, web, rate, nt, hm, hc, lb, cp, hs, mx, hh>>

sideVars == <<p2pVars, pconn, secret, quotaVars, laterVars>>

auxNotClients == <<verifyEer, cfgVars, sideVars>>
auxNotAuth == <<cfgVars, sideVars>>

auxVars == <<authVars, cfgVars, sideVars>>

coreVars == <<bridgeVars, dbVars, connVars, authVars, cfgVars>>

\* everything but one of the subsystems
notP2P == <<coreVars, pconn, secret, quotaVars, laterVars>>
notPmux == <<coreVars, p2pVars, secret, quotaVars, laterVars>>
notSecret == <<coreVars, p2pVars, pconn, quotaVars, laterVars>>
earlierVars == <<coreVars, p2pVars, pconn, secret, quotaVars>>
notSocks == <<earlierVars, https, web, rate, nt, hm, hc, lb, cp, hs, mx, hh>>
notHttps == <<earlierVars, socks, web, rate, nt, hm, hc, lb, cp, hs, mx, hh>>
notWeb == <<earlierVars, socks, https, rate, nt, hm, hc, lb, cp, hs, mx, hh>>
notRate == <<earlierVars, socks, https, web, nt, hm, hc, lb, cp, hs, mx, hh>>
notNt == <<earlierVars, socks, https, web, rate, hm, hc, lb, cp, hs, mx, hh>>
notHm == <<earlierVars, socks, https, web, rate, nt, hc, lb, cp, hs, mx, hh>>
notHc == <<earlierVars, socks, https, web, rate, nt, hm, lb, cp, hs, mx, hh>>
notLb == <<earlierVars, socks, https, web, rate, nt, hm, hc, cp, hs, mx, hh>>
notCp == <<earlierVars, socks, https, web, rate, nt, hm, hc, lb, hs, mx, hh>>
notHs == <<earlierVars, socks, https, web, rate, nt, hm, hc, lb, cp, mx, hh>>
notMx == <<earlierVars, socks, https, web, rate, nt, hm, hc, lb, cp, hs, hh>>
notHh == <<earlierVars, socks, https, web, rate, nt, hm, hc, lb, cp, hs, mx>>

restVars == <<dbVars, connVars, auxVars>>

vars == <<bridgeVars, dbVars, connVars, auxVars>>

----------------------------------------------------------------------------
(* Bridge: sessions                                                        *)

\* the heartbeat sweep tears a session down at this many misses
RetryLimit == 3

NewClient(t, f, s) == [tunnel |-> t, file |-> f, signal |-> s, retryTime |-> 0]

IsPubClient(id) == id \in PubAgents

\* the next connection the bridge listener accepts
FreshConn == CHOOSE c \in ConnIds : connSt[c] = "unused" /\ \A d \in ConnIds : connSt[d] = "unused" => c <= d

HasFreshConn == \E c \in ConnIds : connSt[c] = "unused"

\* the sessions DelClient finds among ids
Present(ids) == ids \cap DOMAIN Client

\* DelClient on every id of ids, called by sender `by`: the signal is closed, the
\* entry is deleted, and for a non-public agent the repository still holds the
\* id is sent on CloseClient.
DelClientFrom(tbl, ids, by) ==
    /\ Client' = [a \in DOMAIN tbl \ ids |-> tbl[a]]
    /\ connSt' = [c \in ConnIds |->
                    IF \E a \in Present(ids) : Client[a].signal = c THEN "closed" ELSE connSt[c]]
    /\ closeQ' = closeQ \cup {[id |-> a, by |-> by] : a \in {x \in Present(ids) : ~IsPubClient(x) /\ x \in DOMAIN Clients}}

DelClient(id, by) == DelClientFrom(Client, {id}, by)

\* an absent flow, and the link of a flow: remote address and LocalProxy
NoFlow == [st |-> "none", via |-> "none", mux |-> Nil, agent |-> Nil,
           raddr |-> <<>>, local |-> FALSE, mode |-> "none"]

----------------------------------------------------------------------------
(* Bridge: typeDeal, the work-type dispatch of a verified connection       *)

\* WORK_MAIN: c becomes the signal; a previous signal gets the close-token
typeDealMain(id) ==
    /\ HasFreshConn
    /\ LET c == FreshConn IN
       IF IsPubClient(id)
       THEN /\ connSt' = [connSt EXCEPT ![c] = "closed"]
            /\ UNCHANGED <<Client, closeTok, health, sigMiss, runMiss>>
       ELSE /\ connSt' = [connSt EXCEPT ![c] = "open"]
            /\ health' = [health EXCEPT ![c] = id]
            /\ IF id \in DOMAIN Client
               THEN /\ Client' = [Client EXCEPT ![id].signal = c]
                    /\ closeTok' = [d \in ConnIds |->
                                      IF d = Client[id].signal THEN TRUE ELSE closeTok[d]]
                    /\ UNCHANGED <<sigMiss, runMiss>>
               ELSE /\ Client' = (id :> NewClient(Nil, Nil, c)) @@ Client
                    /\ sigMiss' = [sigMiss EXCEPT ![id] = 0]
                    /\ runMiss' = [runMiss EXCEPT ![id] = 0]
                    /\ UNCHANGED closeTok
    /\ UNCHANGED <<peerGone, mux, closeQ, pingPhase, flow, ipVerify, Register, now, dropAge, regIp, restVars>>

\* WORK_CHAN: c is wrapped in a mux and becomes the tunnel
typeDealChan(id) ==
    /\ HasFreshConn
    /\ LET c == FreshConn IN
       /\ connSt' = [connSt EXCEPT ![c] = "open"]
       /\ mux' = [mux EXCEPT ![c] = "open"]
       /\ IF id \in DOMAIN Client
          THEN /\ Client' = [Client EXCEPT ![id].tunnel = c]
               /\ UNCHANGED <<sigMiss, runMiss>>
          ELSE /\ Client' = (id :> NewClient(c, Nil, Nil)) @@ Client
               /\ sigMiss' = [sigMiss EXCEPT ![id] = 0]
               /\ runMiss' = [runMiss EXCEPT ![id] = 0]
    /\ UNCHANGED <<closeTok, peerGone, health, closeQ, pingPhase, flow, ipVerify, Register,
                   now, dropAge, regIp, restVars>>

\* WORK_FILE: c is wrapped in a mux and becomes the file tunnel
typeDealFile(id) ==
    /\ HasFreshConn
    /\ LET c == FreshConn IN
       /\ connSt' = [connSt EXCEPT ![c] = "open"]
       /\ mux' = [mux EXCEPT ![c] = "open"]
       /\ IF id \in DOMAIN Client
          THEN /\ Client' = [Client EXCEPT ![id].file = c]
               /\ UNCHANGED <<sigMiss, runMiss>>
          ELSE /\ Client' = (id :> NewClient(Nil, c, Nil)) @@ Client
               /\ sigMiss' = [sigMiss EXCEPT ![id] = 0]
               /\ runMiss' = [runMiss EXCEPT ![id] = 0]
    /\ UNCHANGED <<closeTok, peerGone, health, closeQ, pingPhase, flow, ipVerify, Register,
                   now, dropAge, regIp, restVars>>

----------------------------------------------------------------------------
(* Bridge: the peer, the health loop's end, explicit disconnect            *)

\* the signal of the session that carries the open flow f, or Nil
FlowSignal(f) ==
    IF flow[f].st = "open" /\ flow[f].agent \in DOMAIN Client
    THEN Client[flow[f].agent].signal ELSE Nil

\* The peer end of an open bridge connection goes away (the agent closed it, or
\* the network dropped it). A mux over the connection reports closed.
PeerDrop(c) ==
    /\ connSt[c] = "open"
    /\ ~peerGone[c]
    /\ peerGone' = [peerGone EXCEPT ![c] = TRUE]
    /\ mux' = [mux EXCEPT ![c] = IF @ = "open" THEN "closed" ELSE @]
    /\ dropAge' = [f \in FlowIds |->
                     IF dropAge[f] = -1 /\ FlowSignal(f) = c THEN 0 ELSE dropAge[f]]
    /\ UNCHANGED <<Client, connSt, closeTok, health, closeQ, pingPhase, flow, ipVerify,
                   Register, now, sigMiss, runMiss, regIp, restVars>>

\* a read on c fails
ReadFails(c) == peerGone[c] \/ connSt[c] = "closed"

\* GetHealthFromClient(id, c): GetHealthInfo fails, the loop ends, DelClient(id)
GetHealthFromClientEnd(c) ==
    /\ health[c] # Nil
    /\ ReadFails(c)
    /\ health' = [health EXCEPT ![c] = Nil]
    /\ DelClient(health[c], <<"health", c>>)
    /\ UNCHANGED <<closeTok, peerGone, mux, pingPhase, flow, ipVerify, Register, now,
                   sigMiss, runMiss, dropAge, regIp, restVars>>

\* server.DelClientConnect(id), the admin's explicit disconnect
DelClientConnect(id) ==
    /\ id \in DOMAIN Client
    /\ [id |-> id, by |-> <<"admin", 0>>] \notin closeQ
    /\ DelClient(id, <<"admin", 0>>)
    /\ UNCHANGED <<closeTok, peerGone, health, mux, pingPhase, flow, ipVerify, Register, now,
                   sigMiss, runMiss, dropAge, regIp, restVars>>

\* DelTunnelAndHostByClientId(id, true) on a table of tunnels or hosts: the
\* NoStore entries of agent id are deleted
DelNoStoreOf(tbl, id) ==
    IF \E i \in DOMAIN tbl : tbl[i].NoStore /\ tbl[i].Client = id
    THEN [i \in {j \in DOMAIN tbl : ~(tbl[j].NoStore /\ tbl[j].Client = id)} |-> tbl[i]]
    ELSE tbl

\* DealBridgeTask receives an id from CloseClient, which unblocks its sender:
\* the agent's NoStore tunnels and hosts are deleted, and the agent if NoStore
DealBridgeTaskCloseClient ==
    /\ \E e \in closeQ :
         /\ closeQ' = closeQ \ {e}
         /\ Tasks' = DelNoStoreOf(Tasks, e.id)
         /\ Hosts' = DelNoStoreOf(Hosts, e.id)
         /\ Clients' = IF e.id \in DOMAIN Clients /\ Clients[e.id].NoStore
                       THEN [a \in DOMAIN Clients \ {e.id} |-> Clients[a]]
                       ELSE Clients
    /\ UNCHANGED <<Client, connSt, closeTok, peerGone, health, mux, pingPhase, flow, ipVerify,
                   Register, now, sigMiss, runMiss, dropAge, regIp,
                   got, getPhase, TaskIncreaseId, HostIncreaseId, down, connVars, auxNotClients>>

\* ClientController.Del, the admin deletes agent id: the agent leaves the
\* repository, then all its tunnels and hosts, then server.DelClientConnect
\* runs Bridge.DelClient, which no longer finds the agent in the repository
ClientControllerDel(id) ==
    /\ Clients' = [a \in DOMAIN Clients \ {id} |-> Clients[a]]
    /\ Tasks' = [i \in {j \in DOMAIN Tasks : Tasks[j].Client # id} |-> Tasks[i]]
    /\ Hosts' = [i \in {j \in DOMAIN Hosts : Hosts[j].Client # id} |-> Hosts[i]]
    /\ Client' = [a \in DOMAIN Client \ {id} |-> Client[a]]
    /\ connSt' = [c \in ConnIds |->
                    IF \E a \in Present({id}) : Client[a].signal = c THEN "closed" ELSE connSt[c]]
    /\ UNCHANGED <<closeTok, peerGone, health, mux, closeQ, pingPhase, flow, ipVerify,
                   Register, now, sigMiss, runMiss, dropAge, regIp,
                   got, getPhase, TaskIncreaseId, HostIncreaseId, down, connVars, auxNotClients>>

----------------------------------------------------------------------------
(* Bridge: ping, the 5-second heartbeat sweep                              *)

\* the sweep's first test: a channel the session needs is missing
PingMissing(v) == v.tunnel = Nil \/ v.signal = Nil

\* the session with its retry counter advanced by this sweep
PingBump(v) == IF PingMissing(v) THEN [v EXCEPT !.retryTime = @ + 1] ELSE v

\* variants of the sweep's test: a threshold one sweep late, one sweep early,
\* and a test that never looks at the tunnel-mux
PingExpiredLate(v) ==
    IF PingMissing(v) THEN PingBump(v).retryTime > RetryLimit
    ELSE mux[v.tunnel] = "closed"

PingExpiredEarly(v) ==
    IF PingMissing(v) THEN PingBump(v).retryTime >= RetryLimit - 1
    ELSE mux[v.tunnel] = "closed"

PingExpiredCountOnly(v) ==
    PingMissing(v) /\ PingBump(v).retryTime >= RetryLimit

\* the sweep puts the session in arr, the list it tears down
PingExpired(v) ==
    IF PingMissing(v) THEN PingBump(v).retryTime >= RetryLimit
    ELSE mux[v.tunnel] = "closed"

PingBlocked == \E e \in closeQ : e.by = <<"ping", 0>>

ping ==
    /\ ~PingBlocked
    /\ LET arr == {a \in DOMAIN Client : PingExpired(Client[a])}
           bumped == [a \in DOMAIN Client |-> PingBump(Client[a])]
       IN DelClientFrom(bumped, arr, <<"ping", 0>>)
    /\ pingPhase' = ~pingPhase
    /\ sigMiss' = [a \in Agents |->
                     IF a \in DOMAIN Client
                     THEN (IF Client[a].signal = Nil THEN sigMiss[a] + 1 ELSE 0)
                     ELSE sigMiss[a]]
    /\ runMiss' = [a \in Agents |->
                     IF a \in DOMAIN Client
                     THEN (IF Client[a].signal = Nil \/ Client[a].tunnel = Nil
                           THEN runMiss[a] + 1 ELSE 0)
                     ELSE runMiss[a]]
    /\ dropAge' = [f \in FlowIds |->
                     IF dropAge[f] >= 0 /\ dropAge[f] < 2 THEN dropAge[f] + 1 ELSE dropAge[f]]
    /\ UNCHANGED <<closeTok, peerGone, health, mux, flow, ipVerify, Register, now, regIp, restVars>>

----------------------------------------------------------------------------
(* Bridge: registered IPs and SendLinkInfo                                 *)

\* the hours of the clock in a run, and the hour counts an agent registers
MaxTime == 2
RegisterHours == {0, 1}

\* Remote addresses as net.Addr.String() prints them, one character per element:
\* two IPv4 peers "a:p" and "b:p", two IPv6 peers "[x:1]:p" and "[x:2]:p".
AddrA == <<"a", ":", "p">>
AddrB == <<"b", ":", "p">>
AddrX1 == <<"[", "x", ":", "1", "]", ":", "p">>
AddrX2 == <<"[", "x", ":", "2", "]", ":", "p">>
Addrs == {AddrA, AddrB, AddrX1, AddrX2}

\* index of the first ":" of s, or Len(s) + 1
FirstColon(s) ==
    IF \E i \in 1..Len(s) : s[i] = ":"
    THEN CHOOSE i \in 1..Len(s) : s[i] = ":" /\ \A j \in 1..(i - 1) : s[j] # ":"
    ELSE Len(s) + 1

\* common.GetIpByAddr: strings.Split(addr, ":")[0]
GetIpByAddr(addr) == SubSeq(addr, 1, FirstColon(addr) - 1)

\* index of the last ":" of s (0 if there is none)
LastColon(s) ==
    IF \E i \in 1..Len(s) : s[i] = ":"
    THEN CHOOSE i \in 1..Len(s) : s[i] = ":" /\ \A j \in (i + 1)..Len(s) : s[j] # ":"
    ELSE 0

\* the IP of a remote address "ip:port" or "[ip]:port" (net.SplitHostPort)
HostOf(addr) ==
    LET h == SubSeq(addr, 1, LastColon(addr) - 1) IN
    IF Len(h) >= 2 /\ h[1] = "[" /\ h[Len(h)] = "]" THEN SubSeq(h, 2, Len(h) - 1) ELSE h

\* the expiry test of SendLinkInfo: v.(time.Time).After(time.Now())
NotExpired(expiry) == expiry > now

\* WORK_REGISTER, register(c): the peer's key is stored with now + hour
typeDealRegister(addr, hour) ==
    /\ HasFreshConn
    /\ connSt' = [connSt EXCEPT ![FreshConn] = "open"]
    /\ Register' = (GetIpByAddr(addr) :> (now + hour)) @@ Register
    /\ regIp' = (HostOf(addr) :> (now + hour)) @@ regIp
    /\ UNCHANGED <<Client, closeTok, peerGone, health, mux, closeQ, pingPhase, flow, ipVerify,
                   now, sigMiss, runMiss, dropAge, restVars>>

\* an hour passes
Tick ==
    /\ now < MaxTime
    /\ now' = now + 1
    /\ UNCHANGED <<Client, connSt, closeTok, peerGone, health, mux, closeQ, pingPhase, flow,
                   ipVerify, Register, sigMiss, runMiss, dropAge, regIp, restVars>>

LinkErr == [err |-> TRUE, via |-> "none", mux |-> Nil]

\* SendLinkInfo(clientId, link, t): what it returns and what it opened
SendLinkInfo(clientId, raddr, local, mode) ==
    IF local THEN [err |-> FALSE, via |-> "dial", mux |-> Nil]
    ELSE IF clientId \notin DOMAIN Client THEN LinkErr
    ELSE IF ipVerify /\ GetIpByAddr(raddr) \notin DOMAIN Register THEN LinkErr
    ELSE IF ipVerify /\ ~NotExpired(Register[GetIpByAddr(raddr)]) THEN LinkErr
    ELSE LET tunnel == IF mode = "file" THEN Client[clientId].file ELSE Client[clientId].tunnel
         IN IF tunnel = Nil THEN LinkErr
            ELSE IF mux[tunnel] # "open" THEN LinkErr
            ELSE [err |-> FALSE, via |-> "stream", mux |-> tunnel]

\* BaseServer.DealClient for the public connection f of a tunnel of agent id:
\* on an error the public socket is closed, else the copy pair runs
DealClient(f, id, raddr, local, mode) ==
    /\ flow[f].st = "none"
    /\ LET r == SendLinkInfo(id, raddr, local, mode) IN
       flow' = [flow EXCEPT ![f] = [st |-> IF r.err THEN "closed" ELSE "open",
                                    via |-> r.via, mux |-> r.mux, agent |-> id,
                                    raddr |-> raddr, local |-> local, mode |-> mode]]
    /\ UNCHANGED <<Client, connSt, closeTok, peerGone, health, mux, closeQ, pingPhase,
                   ipVerify, Register, now, sigMiss, runMiss, dropAge, regIp, restVars>>

\* copyConnGroup: the stream of f reads EOF because its mux closed; both ends
\* of the pair are closed
CopyEnd(f) ==
    /\ flow[f].st = "open"
    /\ flow[f].via = "stream"
    /\ mux[flow[f].mux] = "closed"
    /\ flow' = [flow EXCEPT ![f].st = "closed"]
    /\ UNCHANGED <<Client, connSt, closeTok, peerGone, health, mux, closeQ, pingPhase,
                   ipVerify, Register, now, sigMiss, runMiss, dropAge, regIp, restVars>>

\* copyConnGroup: the public client (or a dialled target) closes its end
PublicClose(f) ==
    /\ flow[f].st = "open"
    /\ flow' = [flow EXCEPT ![f].st = "closed"]
    /\ UNCHANGED <<Client, connSt, closeTok, peerGone, health, mux, closeQ, pingPhase,
                   ipVerify, Register, now, sigMiss, runMiss, dropAge, regIp, restVars>>

----------------------------------------------------------------------------
(* Repository objects: targets and the health-driven target sets            *)

\* Strings are sequences of one-character strings; NL separates target lines.
NL == "\n"
StrA == <<"a">>
StrB == <<"b">>
\* the target strings an admin configures: one target, two targets, the same
\* target twice, and one target whose text contains the other targets' text
TargetStrs == {StrA, <<"a", NL, "b">>, <<"a", NL, "a">>, <<"a", "b">>}
\* the targets an agent's prober reports
Infos == {StrA, StrB}

\* a health report is accepted while HealthRemoveArr is shorter than this
MaxRemoved == 2

RECURSIVE SplitLines(_, _)
SplitLines(s, cur) ==
    IF s = <<>> THEN <<cur>>
    ELSE IF Head(s) = NL THEN <<cur>> \o SplitLines(Tail(s), <<>>)
    ELSE SplitLines(Tail(s), Append(cur, Head(s)))

\* strings.Split(s, "\n")
Split(s) == SplitLines(s, <<>>)

\* strings.Contains(s, sub)
Contains(s, sub) ==
    \E i \in 0..(Len(s) - Len(sub)) : SubSeq(s, i + 1, i + Len(sub)) = sub

\* common.TrimArr: the empty elements are thrown away
TrimArr(arr) == SelectSeq(arr, LAMBDA v : v # <<>>)

IsArrContains(arr, val) == \E k \in 1..Len(arr) : arr[k] = val

\* common.RemoveArrVal: the first element equal to val is removed
RemoveArrVal(arr, val) ==
    IF IsArrContains(arr, val)
    THEN LET k == CHOOSE i \in 1..Len(arr) : arr[i] = val /\ \A j \in 1..(i - 1) : arr[j] # val
         IN SubSeq(arr, 1, k - 1) \o SubSeq(arr, k + 1, Len(arr))
    ELSE arr

\* &file.Target{TargetStr: str}: TargetArr is nil
NewTarget(str) == [nowIndex |-> 0, TargetStr |-> str, TargetArr |-> <<>>, TargetArrNil |-> TRUE]

Tunnel(client, mode, password, str) ==
    [Client |-> client, Mode |-> mode, Password |-> password,
     Target |-> NewTarget(str), HealthRemoveArr |-> <<>>, NoStore |-> FALSE, Status |-> TRUE]

Host(client, host, location, scheme, str) ==
    [Client |-> client, Host |-> host, Location |-> location, Scheme |-> scheme,
     Target |-> NewTarget(str), HealthRemoveArr |-> <<>>, NoStore |-> FALSE]

\* Target.GetRandomTarget: the target after the call, the address, the error
GetRandomTarget(s) ==
    LET arr == IF s.TargetArrNil THEN Split(s.TargetStr) ELSE s.TargetArr
        s1 == [s EXCEPT !.TargetArr = arr, !.TargetArrNil = FALSE]
    IN IF Len(arr) = 1 THEN [target |-> s1, val |-> arr[1], err |-> FALSE]
       ELSE IF Len(arr) = 0 THEN [target |-> s1, val |-> <<>>, err |-> TRUE]
       ELSE LET idx == (IF s.nowIndex >= Len(arr) - 1 THEN -1 ELSE s.nowIndex) + 1
            IN [target |-> [s1 EXCEPT !.nowIndex = idx], val |-> arr[idx + 1], err |-> FALSE]

NoGot == [kind |-> "none", owner |-> Nil, str |-> <<>>, val |-> <<>>, err |-> FALSE]

\* ProcessTunnel on a connection of tunnel i (the tcp and file modes serve with it)
ProcessTunnel(i) ==
    /\ i \in DOMAIN Tasks
    /\ Tasks[i].Mode \in {"tcp", "file"}
    /\ LET r == GetRandomTarget(Tasks[i].Target) IN
       /\ Tasks' = [Tasks EXCEPT ![i].Target = r.target]
       /\ got' = [kind |-> "tunnel", owner |-> Tasks[i].Client, str |-> Tasks[i].Target.TargetStr,
                  val |-> r.val, err |-> r.err]
    /\ getPhase' = ~getPhase
    /\ UNCHANGED <<bridgeVars, auxVars, Hosts, TaskIncreaseId, HostIncreaseId, down, connVars>>

\* the http proxy resolves a request to host j and picks its target
handleHttp(j) ==
    /\ j \in DOMAIN Hosts
    /\ LET r == GetRandomTarget(Hosts[j].Target) IN
       /\ Hosts' = [Hosts EXCEPT ![j].Target = r.target]
       /\ got' = [kind |-> "host", owner |-> Hosts[j].Client, str |-> Hosts[j].Target.TargetStr,
                  val |-> r.val, err |-> r.err]
    /\ getPhase' = ~getPhase
    /\ UNCHANGED <<bridgeVars, auxVars, Tasks, TaskIncreaseId, HostIncreaseId, down, connVars>>

\* GetHealthFromClient, status=false: the target leaves TargetArr of v
HealthRemove(v, info) ==
    LET arr == IF v.Target.TargetArrNil
                  \/ (Len(v.Target.TargetArr) = 0 /\ Len(v.HealthRemoveArr) = 0)
               THEN TrimArr(Split(v.Target.TargetStr)) ELSE v.Target.TargetArr
    IN [v EXCEPT !.Target.TargetArr = RemoveArrVal(arr, info),
                 !.Target.TargetArrNil = FALSE,
                 !.HealthRemoveArr = Append(@, info)]

\* GetHealthFromClient, status=true: the target returns to TargetArr of v
HealthRestore(v, info) ==
    IF IsArrContains(v.HealthRemoveArr, info) /\ ~IsArrContains(v.Target.TargetArr, info)
    THEN [v EXCEPT !.Target.TargetArr = Append(@, info),
                   !.Target.TargetArrNil = FALSE,
                   !.HealthRemoveArr = RemoveArrVal(@, info)]
    ELSE v

\* the tunnels and the hosts a status=false report (id, info) is applied to
TunnelMatches(v, id, info) ==
    v.Client = id /\ v.Mode = "tcp" /\ Contains(v.Target.TargetStr, info)

HostMatches(v, id, info) == v.Client = id /\ Contains(v.Target.TargetStr, info)

\* GetHealthFromClient(id, c): one report (info, status) read from the signal c
GetHealthFromClientReport(c, info, status) ==
    /\ health[c] # Nil
    /\ connSt[c] = "open"
    /\ ~peerGone[c]
    /\ LET id == health[c] IN
       IF ~status
       THEN /\ \A i \in DOMAIN Tasks : Len(Tasks[i].HealthRemoveArr) < MaxRemoved
            /\ \A j \in DOMAIN Hosts : Len(Hosts[j].HealthRemoveArr) < MaxRemoved
            /\ Tasks' = [i \in DOMAIN Tasks |->
                           IF TunnelMatches(Tasks[i], id, info)
                           THEN HealthRemove(Tasks[i], info) ELSE Tasks[i]]
            /\ Hosts' = [j \in DOMAIN Hosts |->
                           IF HostMatches(Hosts[j], id, info)
                           THEN HealthRemove(Hosts[j], info) ELSE Hosts[j]]
            /\ down' = down \cup {<<id, info>>}
       ELSE /\ Tasks' = [i \in DOMAIN Tasks |->
                           IF Tasks[i].Client = id /\ Tasks[i].Mode = "tcp"
                           THEN HealthRestore(Tasks[i], info) ELSE Tasks[i]]
            /\ Hosts' = [j \in DOMAIN Hosts |->
                           IF Hosts[j].Client = id
                           THEN HealthRestore(Hosts[j], info) ELSE Hosts[j]]
            /\ down' = down \ {<<id, info>>}
    /\ UNCHANGED <<bridgeVars, auxVars, got, getPhase, TaskIncreaseId, HostIncreaseId, connVars>>

\* no repository objects, nothing asked of them
DbIdle ==
    /\ Tasks = <<>>
    /\ Hosts = <<>>
    /\ got = NoGot
    /\ getPhase = FALSE
    /\ TaskIncreaseId = 0
    /\ HostIncreaseId = 0
    /\ down = {}

----------------------------------------------------------------------------
(* The per-agent connection counter                                        *)

\* accept handlers of the agent's tunnels that run at the same time
MaxProcs == 3
Procs == 1..MaxProcs
\* the max_conn values of the agent (0 is unlimited)
\* the quotas and the traffic totals of the agent the counter model starts with
FlowLimitChoices == {0, 1}
FlowUsedChoices == {0, 2^20 - 1, 2^20, 2^20 + 1}

MaxConnChoices == {0, 1, 2}

\* the test of Client.GetConn
GetConnTest == MaxConn = 0 \/ NowConn < MaxConn

\* CheckFlowAndConnNum's first test: a quota is set and the traffic is over it
FlowExceeded == FlowLimit > 0 /\ FlowLimit * 2^20 < FlowUsed

\* TunnelModeServer.Start's callback on a new connection: CheckFlowAndConnNum
\* evaluates GetConn's test; on a refusal the connection is closed
HandlerGetConnTest(p) ==
    /\ pc[p] = "idle"
    /\ pc' = [pc EXCEPT ![p] = IF ~FlowExceeded /\ GetConnTest THEN "cut" ELSE "refused"]
    /\ UNCHANGED <<bridgeVars, auxVars, dbVars, MaxConn, NowConn>>

\* GetConn goes on to CutConn, the atomic increment, and returns true
HandlerCutConn(p) ==
    /\ pc[p] = "cut"
    /\ NowConn' = NowConn + 1
    /\ pc' = [pc EXCEPT ![p] = "open"]
    /\ UNCHANGED <<bridgeVars, auxVars, dbVars, MaxConn>>

\* s.process returns (the flow is over), AddConn decrements
HandlerAddConn(p) ==
    /\ pc[p] = "open"
    /\ NowConn' = NowConn - 1
    /\ pc' = [pc EXCEPT ![p] = "idle"]
    /\ UNCHANGED <<bridgeVars, auxVars, dbVars, MaxConn>>

\* the callback returns after a refusal
HandlerRefused(p) ==
    /\ pc[p] = "refused"
    /\ pc' = [pc EXCEPT ![p] = "idle"]
    /\ UNCHANGED <<bridgeVars, auxVars, dbVars, MaxConn, NowConn>>

\* no handler runs
ConnIdle ==
    /\ MaxConn = 0
    /\ NowConn = 0
    /\ pc = [p \in Procs |-> "idle"]

----------------------------------------------------------------------------
(* The tunnel repository: create, edit, delete                             *)

\* tunnels created during a run
MaxTasks == 3
TaskModes == {"tcp", "secret", "p2p"}
Passwords == {"x", "y"}

\* DbUtils.NewTask refuses t: a secret or p2p tunnel already has t's password
NewTaskRefuses(t) ==
    \E i \in DOMAIN Tasks : Tasks[i].Mode \in {"secret", "p2p"} /\ Tasks[i].Password = t.Password

\* IndexController.Add: the id is taken, then NewTask stores the tunnel or refuses
TunnelAdd(client, mode, password, str) ==
    /\ TaskIncreaseId < MaxTasks
    /\ TaskIncreaseId' = TaskIncreaseId + 1
    /\ LET t == Tunnel(client, mode, password, str) IN
       Tasks' = IF NewTaskRefuses(t) THEN Tasks ELSE (TaskIncreaseId' :> t) @@ Tasks
    /\ UNCHANGED <<bridgeVars, auxVars, Hosts, got, getPhase, down, HostIncreaseId, connVars>>

\* IndexController.Edit: the stored tunnel gets the posted fields, UpdateTask stores it
TunnelEdit(id, client, mode, password, str) ==
    /\ id \in DOMAIN Tasks
    /\ Tasks' = [Tasks EXCEPT ![id].Client = client, ![id].Mode = mode,
                              ![id].Password = password, ![id].Target = NewTarget(str)]
    /\ UNCHANGED <<bridgeVars, auxVars, Hosts, got, getPhase, down, TaskIncreaseId, HostIncreaseId, connVars>>

\* IndexController.Del, server.DelTask, DbUtils.DelTask
TunnelDel(id) ==
    /\ id \in DOMAIN Tasks
    /\ Tasks' = [i \in DOMAIN Tasks \ {id} |-> Tasks[i]]
    /\ UNCHANGED <<bridgeVars, auxVars, Hosts, got, getPhase, down, TaskIncreaseId, HostIncreaseId, connVars>>

----------------------------------------------------------------------------
(* The host repository: create, edit                                       *)

\* hosts created during a run
MaxHosts == 3
HostNames == {"h", "g"}
Locations == {"", "/"}
Schemes == {"all", "http", "https"}

\* DbUtils.IsHostExist(h): a stored host other than h.Id has h's host and
\* location, and its scheme is "all" or h's scheme
IsHostExist(id, host, location, scheme) ==
    \E j \in DOMAIN Hosts :
        /\ j # id
        /\ Hosts[j].Host = host
        /\ Hosts[j].Location = location
        /\ (Hosts[j].Scheme = "all" \/ Hosts[j].Scheme = scheme)

\* IndexController.AddHost: the id is taken, NewHost defaults the location to
\* "/" and stores the host unless IsHostExist
HostAdd(client, host, location, scheme, str) ==
    /\ HostIncreaseId < MaxHosts
    /\ HostIncreaseId' = HostIncreaseId + 1
    /\ LET loc == IF location = "" THEN "/" ELSE location IN
       Hosts' = IF IsHostExist(HostIncreaseId', host, loc, scheme) THEN Hosts
                ELSE (HostIncreaseId' :> Host(client, host, loc, scheme, str)) @@ Hosts
    /\ UNCHANGED <<bridgeVars, auxVars, Tasks, got, getPhase, down, TaskIncreaseId, connVars>>

\* IndexController.EditHost: IsHostExist is asked, for a temporary host with
\* id 0, only when the host name changes; then the posted fields are stored
HostEdit(id, client, host, location, scheme, str) ==
    /\ id \in DOMAIN Hosts
    /\ Hosts' = IF Hosts[id].Host # host /\ IsHostExist(0, host, location, scheme) THEN Hosts
                ELSE [Hosts EXCEPT ![id].Client = client, ![id].Host = host,
                                   ![id].Location = location, ![id].Scheme = scheme,
                                   ![id].Target = NewTarget(str)]
    /\ UNCHANGED <<bridgeVars, auxVars, Tasks, got, getPhase, down, TaskIncreaseId, HostIncreaseId, connVars>>

----------------------------------------------------------------------------
(* Bridge: getConfig, the loop of a config-channel connection              *)

\* agent ids the repository hands out during a run
MaxAgents == 3

\* what getInfo finds after a NEW_CONF token: bytes it cannot read or decode
\* (the pointer stays nil), or an agent with a verify-key and Id 0
ConfPayloads ==
    {[readable |-> FALSE, VerifyKey |-> ""]}
        \cup {[readable |-> TRUE, VerifyKey |-> k] : k \in {"k1", "k3"}}

\* ... after a NEW_HOST token
HostPayloads ==
    {[readable |-> FALSE, Host |-> "", Location |-> "", Scheme |-> ""]}
        \cup {[readable |-> TRUE, Host |-> h, Location |-> l, Scheme |-> sc] :
                 h \in HostNames, l \in Locations, sc \in Schemes}

\* ... after a NEW_TASK token: the mode, the password, how many ports the
\* port list holds, and whether the server can listen on the port
TaskPayloads ==
    {[readable |-> FALSE, Mode |-> "", Password |-> "", nPorts |-> 0, portFree |-> FALSE]}
        \cup {[readable |-> TRUE, Mode |-> m, Password |-> pw, nPorts |-> n, portFree |-> b] :
                 m \in {"tcp", "secret"}, pw \in Passwords, n \in {0, 1}, b \in BOOLEAN}

\* DbUtils.VerifyVkey: no agent other than id has the key
VerifyVkey(vkey, id) ==
    ~\E a \in DOMAIN Clients : Clients[a].VerifyKey = vkey /\ a # id

\* Client.HasHost
HasHost(client, host, location) ==
    \E j \in DOMAIN Hosts :
        Hosts[j].Client = client /\ Hosts[j].Host = host /\ Hosts[j].Location = location

\* typeDeal, WORK_CONFIG: the connection is closed unless the agent is public
\* or allows config connections; otherwise getConfig starts on it
typeDealConfig(id) ==
    /\ HasFreshConn
    /\ cfgPc = "idle"
    /\ IF id \notin DOMAIN Clients \/ (~IsPubClient(id) /\ ~Clients[id].ConfigConnAllow)
       THEN /\ connSt' = [connSt EXCEPT ![FreshConn] = "closed"]
            /\ UNCHANGED <<cfgPc, cfgConn, cfgClient>>
       ELSE /\ connSt' = [connSt EXCEPT ![FreshConn] = "open"]
            /\ cfgPc' = "loop"
            /\ cfgConn' = FreshConn
            /\ cfgClient' = id
    /\ UNCHANGED <<Client, closeTok, peerGone, health, mux, closeQ, pingPhase, flow, ipVerify,
                   Register, now, sigMiss, runMiss, dropAge, regIp,
                   dbVars, connVars, authVars, failTok, ClientIncreaseId, cfgErr, sideVars>>

\* getInfo left the pointer nil and GetConfigInfo, GetHostInfo or GetTaskInfo
\* writes through it: the goroutine panics, nothing recovers it
getConfigPanic ==
    /\ cfgPc' = "panic"
    /\ cfgErr' = [failed |-> TRUE, agent |-> cfgClient]
    /\ UNCHANGED <<bridgeVars, dbVars, connVars, authVars,
                   cfgConn, cfgClient, failTok, ClientIncreaseId, sideVars>>

\* a failure branch of the loop and what follows the loop: fail = true,
\* WriteAddFail (which closes the connection), break; then
\* s.DelClient(client.Id) for the loop's client, and c.Close()
getConfigFail(client) ==
    /\ failTok' = TRUE
    /\ cfgPc' = "done"
    /\ cfgErr' = [failed |-> TRUE, agent |-> cfgClient]
    /\ Client' = [a \in DOMAIN Client \ {client} |-> Client[a]]
    /\ connSt' = [c \in ConnIds |->
                    IF c = cfgConn \/ \E a \in Present({client}) : Client[a].signal = c
                    THEN "closed" ELSE connSt[c]]
    /\ closeQ' = closeQ \cup {[id |-> a, by |-> <<"conf", 0>>] :
                                 a \in {x \in Present({client}) : ~IsPubClient(x)}}

\* the loop reads NEW_CONF and the payload p
getConfigNewConf(p) ==
    /\ cfgPc = "loop"
    /\ ClientIncreaseId < MaxAgents
    /\ IF ~p.readable
       THEN getConfigPanic
       ELSE IF ~VerifyVkey(p.VerifyKey, 0)
       THEN /\ cfgClient' = 0
            /\ getConfigFail(0)
            /\ UNCHANGED <<closeTok, peerGone, health, mux, pingPhase, flow, ipVerify, Register,
                           now, sigMiss, runMiss, dropAge, regIp,
                           dbVars, connVars, authVars, cfgConn, ClientIncreaseId, sideVars>>
       ELSE /\ ClientIncreaseId' = ClientIncreaseId + 1
            /\ Clients' = (ClientIncreaseId' :> [VerifyKey |-> p.VerifyKey, Status |-> TRUE,
                                                 NoStore |-> TRUE, ConfigConnAllow |-> FALSE])
                              @@ Clients
            /\ Client' = (ClientIncreaseId' :> NewClient(Nil, Nil, Nil))
                             @@ [a \in DOMAIN Client \ {ClientIncreaseId'} |-> Client[a]]
            /\ cfgClient' = ClientIncreaseId'
            /\ UNCHANGED <<connSt, closeTok, peerGone, health, mux, closeQ, pingPhase, flow,
                           ipVerify, Register, now, sigMiss, runMiss, dropAge, regIp,
                           dbVars, connVars, verifyEer, cfgPc, cfgConn, failTok, cfgErr, sideVars>>

\* the loop reads NEW_HOST and the payload p: the host id is taken, the
\* location defaults to "/", and a host the agent does not have yet is stored
\* unless IsHostExist
getConfigNewHost(p) ==
    /\ cfgPc = "loop"
    /\ HostIncreaseId < MaxHosts
    /\ IF ~p.readable
       THEN getConfigPanic
       ELSE /\ HostIncreaseId' = HostIncreaseId + 1
            /\ LET loc == IF p.Location = "" THEN "/" ELSE p.Location
                   h == [Host(cfgClient, p.Host, loc, p.Scheme, StrA) EXCEPT !.NoStore = TRUE]
               IN IF HasHost(cfgClient, p.Host, loc)
                  THEN UNCHANGED <<bridgeVars, Hosts, cfgPc, failTok, cfgErr>>
                  ELSE IF IsHostExist(HostIncreaseId', p.Host, loc, p.Scheme)
                  THEN /\ getConfigFail(cfgClient)
                       /\ UNCHANGED <<closeTok, peerGone, health, mux, pingPhase, flow, ipVerify,
                                      Register, now, sigMiss, runMiss, dropAge, regIp, Hosts>>
                  ELSE /\ Hosts' = (HostIncreaseId' :> h) @@ Hosts
                       /\ UNCHANGED <<bridgeVars, cfgPc, failTok, cfgErr>>
            /\ UNCHANGED <<Tasks, got, getPhase, TaskIncreaseId, down, connVars, authVars,
                           cfgConn, cfgClient, ClientIncreaseId, sideVars>>

\* the loop reads NEW_TASK and the payload p, whose port list and target list
\* have p.nPorts entries, on a port the agent has no tunnel on: GetTaskInfo
\* takes a tunnel id, the tunnel of the port takes another, NewTask stores it
\* or refuses, and TestServerPort is asked after the tunnel was stored
getConfigNewTask(p) ==
    /\ cfgPc = "loop"
    /\ TaskIncreaseId + 2 <= MaxTasks
    /\ IF ~p.readable
       THEN getConfigPanic
       ELSE /\ LET tl == [Tunnel(cfgClient, p.Mode, p.Password, StrA) EXCEPT !.NoStore = TRUE]
               IN IF p.nPorts = 0
                  THEN /\ TaskIncreaseId' = TaskIncreaseId + 1
                       /\ getConfigFail(cfgClient)
                       /\ UNCHANGED Tasks
                  ELSE /\ TaskIncreaseId' = TaskIncreaseId + 2
                       /\ IF NewTaskRefuses(tl)
                          THEN /\ getConfigFail(cfgClient)
                               /\ UNCHANGED Tasks
                          ELSE /\ Tasks' = (TaskIncreaseId' :> tl) @@ Tasks
                               /\ IF ~p.portFree /\ p.Mode # "secret"
                                  THEN getConfigFail(cfgClient)
                                  ELSE UNCHANGED <<Client, connSt, closeQ, cfgPc, failTok, cfgErr>>
            /\ UNCHANGED <<closeTok, peerGone, health, mux, pingPhase, flow, ipVerify, Register,
                           now, sigMiss, runMiss, dropAge, regIp,
                           Hosts, got, getPhase, HostIncreaseId, down, connVars, authVars,
                           cfgConn, cfgClient, ClientIncreaseId, sideVars>>

\* ReadFlag fails (the agent closed the connection): the loop ends without a
\* failure and the connection is closed
getConfigEnd ==
    /\ cfgPc = "loop"
    /\ cfgPc' = "done"
    /\ connSt' = [connSt EXCEPT ![cfgConn] = "closed"]
    /\ UNCHANGED <<Client, closeTok, peerGone, health, mux, closeQ, pingPhase, flow, ipVerify,
                   Register, now, sigMiss, runMiss, dropAge, regIp,
                   dbVars, connVars, authVars, cfgConn, cfgClient, failTok, ClientIncreaseId,
                   cfgErr, sideVars>>

\* no config connection yet
CfgIdle ==
    /\ cfgPc = "idle"
    /\ cfgConn = Nil
    /\ cfgClient = 0
    /\ failTok = FALSE
    /\ ClientIncreaseId = Cardinality(Agents)
    /\ cfgErr = [failed |-> FALSE, agent |-> 0]

----------------------------------------------------------------------------
(* P2PServer: handleP2P, the UDP rendezvous                                *)

\* the passwords of the handshake packets, and the senders' addresses
P2PPasswords == {"p", "q"}
VisitorAddr == "va"
ProviderAddr == "pa"

\* the visitor's goroutine tests for the provider this many times, one second apart
P2PWait == 20

\* s.p2p[pw], created when absent
P2PEntry(pw) ==
    IF pw \in DOMAIN p2p THEN p2p[pw] ELSE [visitorAddr |-> "", providerAddr |-> ""]

\* handleP2P for a visitor's packet, up to the loop: the entry is found or
\* created and the visitor's address is stored
handleP2PVisitor(pw) ==
    /\ vpc[pw] = "none"
    /\ p2p' = (pw :> [P2PEntry(pw) EXCEPT !.visitorAddr = VisitorAddr]) @@ p2p
    /\ vpc' = [vpc EXCEPT ![pw] = "test"]
    /\ vi' = [vi EXCEPT ![pw] = P2PWait]
    /\ UNCHANGED <<udpOut, elapsed, provided, notP2P>>

\* the loop's test: with the provider's address present both addresses are
\* written and the loop is left; otherwise the goroutine sleeps
handleP2PTest(pw) ==
    /\ vpc[pw] = "test"
    /\ IF p2p[pw].providerAddr # ""
       THEN /\ udpOut' = udpOut \cup {<<p2p[pw].visitorAddr, p2p[pw].providerAddr>>,
                                      <<p2p[pw].providerAddr, p2p[pw].visitorAddr>>}
            /\ vpc' = [vpc EXCEPT ![pw] = "delete"]
       ELSE /\ vpc' = [vpc EXCEPT ![pw] = "sleep"]
            /\ UNCHANGED udpOut
    /\ UNCHANGED <<p2p, vi, elapsed, provided, notP2P>>

\* time.Sleep(time.Second) returns, i--: the loop goes on while i > 0
handleP2PSleep(pw) ==
    /\ vpc[pw] = "sleep"
    /\ vi' = [vi EXCEPT ![pw] = @ - 1]
    /\ elapsed' = [elapsed EXCEPT ![pw] = @ + 1]
    /\ vpc' = [vpc EXCEPT ![pw] = IF vi[pw] - 1 > 0 THEN "test" ELSE "delete"]
    /\ UNCHANGED <<p2p, udpOut, provided, notP2P>>

\* after the loop: delete(s.p2p, password)
handleP2PDelete(pw) ==
    /\ vpc[pw] = "delete"
    /\ p2p' = [k \in DOMAIN p2p \ {pw} |-> p2p[k]]
    /\ vpc' = [vpc EXCEPT ![pw] = "done"]
    /\ UNCHANGED <<vi, udpOut, elapsed, provided, notP2P>>

\* handleP2P for a provider's packet (one per password in a run): the entry is
\* found or created and the provider's address is stored
handleP2PProvider(pw) ==
    /\ provided[pw] = "no"
    /\ p2p' = (pw :> [P2PEntry(pw) EXCEPT !.providerAddr = ProviderAddr]) @@ p2p
    /\ provided' = [provided EXCEPT ![pw] =
                      IF vpc[pw] = "none" THEN "first"
                      ELSE IF vpc[pw] \in {"test", "sleep"} /\ elapsed[pw] < P2PWait THEN "intime"
                      ELSE "late"]
    /\ UNCHANGED <<vpc, vi, udpOut, elapsed, notP2P>>

\* no packet yet
P2PIdle ==
    /\ p2p = <<>>
    /\ vpc = [pw \in P2PPasswords |-> "none"]
    /\ vi = [pw \in P2PPasswords |-> 0]
    /\ udpOut = {}
    /\ elapsed = [pw \in P2PPasswords |-> 0]
    /\ provided = [pw \in P2PPasswords |-> "no"]

----------------------------------------------------------------------------
(* PortMux: process, PortListener.Accept, PortConn.Read                    *)

\* the values a first byte takes in this model, and the value of each
ByteToks == {"G", "E", "T", "P", "O", "S", "x07", "xA9", "x16"}
Ord(b) ==
    CASE b = "G" -> 71 [] b = "E" -> 69 [] b = "T" -> 84 [] b = "P" -> 80 [] b = "O" -> 79
      [] b = "S" -> 83 [] b = "x07" -> 7 [] b = "xA9" -> 169 [] b = "x16" -> 22

\* what the peer sends after its first three bytes: a Host header naming the
\* manager host, one naming another host and ended by a bare line feed, or
\* bytes without a line end
PmuxTails ==
    { <<"H", "o", "s", "t", ":", "m", "\r", "\n", "z">>,
      <<"h", "o", "s", "t", ":", "o", "\n", "z">>,
      <<"z", "y">> }

\* PortMux.managerHost
ManagerHost == <<"m">>

\* the sizes of the buffers the reader passes to Read
ReadSizes == {1, 2, 4}

\* HTTP_GET .. HTTP_TRACE, and CLIENT
HttpTokens == {716984, 807983, 726965, 808585, 686976, 677978, 798084, 848265}
CLIENT == 848384

\* the timer's duration as passed to time.NewTimer, whose unit is the nanosecond
ACCEPT_TIME_OUT == 10
Second == 1000000000

\* common.BytesToNum: the decimal digits of every byte, concatenated, as a number
RECURSIVE BytesToNum(_)
BytesToNum(b) ==
    IF b = <<>> THEN 0
    ELSE LET v == Ord(b[Len(b)])
             shift == IF v < 10 THEN 10 ELSE IF v < 100 THEN 100 ELSE 1000
         IN BytesToNum(SubSeq(b, 1, Len(b) - 1)) * shift + v

\* index of the first line feed of s, or 0
FirstLf(s) ==
    IF \E i \in 1..Len(s) : s[i] = "\n"
    THEN CHOOSE i \in 1..Len(s) : s[i] = "\n" /\ \A j \in 1..(i - 1) : s[j] # "\n"
    ELSE 0

\* bufio.Reader.ReadLine on s, which holds a line feed: the line without its end
ReadLine(s) ==
    LET k == FirstLf(s)
    IN IF k > 1 /\ s[k - 1] = "\r" THEN SubSeq(s, 1, k - 2) ELSE SubSeq(s, 1, k - 1)

\* strings.Index(string(b), "Host:") == 0 || strings.Index(string(b), "host:") == 0
IsHostLine(b) ==
    /\ Len(b) >= 5
    /\ SubSeq(b, 1, 5) \in {<<"H", "o", "s", "t", ":">>, <<"h", "o", "s", "t", ":">>}

\* the header loop of process on the bytes s that follow the first three, acc
\* being buffer's content: every line read is written to the buffer followed
\* by "\r\n"; at the Host line the channel is chosen and what the reader still
\* buffers is appended; a read error closes the connection
RECURSIVE ReadHeaders(_, _)
ReadHeaders(s, acc) ==
    IF FirstLf(s) = 0
    THEN [ch |-> "none", rs |-> <<>>, closed |-> TRUE]
    ELSE LET b == ReadLine(s)
             rest == SubSeq(s, FirstLf(s) + 1, Len(s))
             buffer == acc \o b \o <<"\r", "\n">>
         IN IF IsHostLine(b)
            THEN [ch |-> IF GetIpByAddr(SubSeq(b, 6, Len(b))) = ManagerHost
                         THEN "manager" ELSE "http",
                  rs |-> buffer \o rest, closed |-> FALSE]
            ELSE ReadHeaders(rest, buffer)

\* a connection whose peer sends the bytes sent, before process has read it
NewPortConnOf(sent) ==
    [sent |-> sent, pc |-> "new", ch |-> "none", rs |-> <<>>, start |-> 0, readMore |-> FALSE,
     rest |-> sent, closed |-> FALSE, waited |-> 0, out |-> <<>>]

\* PortMux.process up to the select: the first three bytes choose the channel,
\* the PortConn is built and the timer is started
process ==
    /\ pconn.pc = "new"
    /\ LET buf == SubSeq(pconn.sent, 1, 3)
           tail == SubSeq(pconn.sent, 4, Len(pconn.sent))
           num == BytesToNum(buf)
           hd == ReadHeaders(tail, buf)
           isHttp == num \in HttpTokens
           rs == IF isHttp /\ Len(hd.rs) # 0 THEN hd.rs ELSE buf
       IN pconn' = [pconn EXCEPT
                      !.pc = "offer",
                      !.ch = IF isHttp THEN hd.ch ELSE IF num = CLIENT THEN "client" ELSE "https",
                      !.rs = rs,
                      !.readMore = ~isHttp /\ num # CLIENT,
                      !.rest = IF isHttp /\ Len(hd.rs) # 0 THEN <<>> ELSE tail,
                      !.closed = isHttp /\ hd.closed]
    /\ UNCHANGED notPmux

\* a nanosecond passes while process waits in the select
PmuxTick ==
    /\ pconn.pc = "offer"
    /\ pconn.waited <= ACCEPT_TIME_OUT
    /\ pconn' = [pconn EXCEPT !.waited = @ + 1]
    /\ UNCHANGED notPmux

\* PortListener.Accept of the chosen channel's listener receives the PortConn
Accept ==
    /\ pconn.pc = "offer"
    /\ pconn.ch # "none"
    /\ pconn' = [pconn EXCEPT !.pc = "accepted"]
    /\ UNCHANGED notPmux

\* the select takes timer.C: process returns, the connection is left as it is
PmuxTimeout ==
    /\ pconn.pc = "offer"
    /\ pconn.waited >= ACCEPT_TIME_OUT
    /\ pconn' = [pconn EXCEPT !.pc = "dropped"]
    /\ UNCHANGED notPmux

\* Conn.Read of the underlying connection into a buffer of n bytes
ConnRead(c, n) ==
    LET k == IF n < Len(c.rest) THEN n ELSE Len(c.rest)
    IN [c EXCEPT !.out = @ \o SubSeq(c.rest, 1, k), !.rest = SubSeq(c.rest, k + 1, Len(c.rest))]

\* PortConn.Read into a buffer of size bytes
PortConnRead(size) ==
    /\ pconn.pc = "accepted"
    /\ pconn.start < Len(pconn.rs) \/ pconn.rest # <<>>
    /\ pconn' =
         IF size < Len(pconn.rs) - pconn.start
         THEN [pconn EXCEPT !.out = @ \o SubSeq(pconn.rs, 1, size), !.start = @ + size]
         ELSE IF pconn.start < Len(pconn.rs)
         THEN LET n == Len(pconn.rs) - pconn.start
                  c == [pconn EXCEPT !.out = @ \o SubSeq(pconn.rs, pconn.start + 1, Len(pconn.rs)),
                                     !.start = Len(pconn.rs)]
              IN IF ~pconn.readMore THEN c ELSE ConnRead(c, size - n)
         ELSE ConnRead(pconn, size)
    /\ UNCHANGED notPmux

\* no connection on the shared port
PmuxIdle == pconn = NewPortConnOf(<<>>)

----------------------------------------------------------------------------
(* Agents of the repository and the handshake of a bridge connection       *)

\* crypt.Md5 of a key
Md5(k) == <<"md5", k>>

\* the verify-key of agent a
VerifyKeyOf(a) == IF a = 1 THEN "k1" ELSE "k2"

\* the 32 bytes a peer presents: the hash of an agent's key, or of no agent's key
VKeys == {Md5("k1"), Md5("k2"), Md5("zz")}

\* the work-type tokens the handshake dispatches in this model
Flags == {"main", "chan", "file", "conf"}

\* DbUtils.GetIdByVerifyKey: the id of an enabled agent whose hashed key is
\* vKey, or Nil for "not found"
GetIdByVerifyKey(vKey) ==
    IF \E a \in DOMAIN Clients : Md5(Clients[a].VerifyKey) = vKey /\ Clients[a].Status
    THEN CHOOSE a \in DOMAIN Clients : Md5(Clients[a].VerifyKey) = vKey /\ Clients[a].Status
    ELSE Nil

\* typeDeal(flag, c, id)
typeDeal(flag, id) ==
    IF flag = "main" THEN typeDealMain(id)
    ELSE IF flag = "chan" THEN typeDealChan(id)
    ELSE IF flag = "file" THEN typeDealFile(id)
    ELSE typeDealConfig(id)

\* Bridge.cliProcess on a new connection whose peer sends the right version,
\* the 32 bytes vKey and then the work-type token flag
cliProcess(vKey, flag) ==
    /\ HasFreshConn
    /\ IF GetIdByVerifyKey(vKey) = Nil
       THEN /\ verifyEer' = [verifyEer EXCEPT ![FreshConn] = TRUE]
            /\ connSt' = [connSt EXCEPT ![FreshConn] = "open"]
            /\ UNCHANGED <<Client, closeTok, peerGone, health, mux, closeQ, pingPhase, flow,
                           ipVerify, Register, now, sigMiss, runMiss, dropAge, regIp,
                           dbVars, connVars, Clients, auxNotAuth>>
       ELSE typeDeal(flag, GetIdByVerifyKey(vKey))

\* ClientController.ChangeStatus: the status is stored; disabling an agent
\* disconnects its session
ChangeStatus(id, status) ==
    /\ [id |-> id, by |-> <<"admin", 0>>] \notin closeQ
    /\ Clients' = [Clients EXCEPT ![id].Status = status]
    /\ IF status THEN UNCHANGED <<Client, connSt, closeQ>> ELSE DelClient(id, <<"admin", 0>>)
    /\ UNCHANGED <<closeTok, peerGone, health, mux, pingPhase, flow, ipVerify, Register, now,
                   sigMiss, runMiss, dropAge, regIp, dbVars, connVars, auxNotClients>>

\* every agent enabled, no handshake refused
AuthIdle ==
    /\ Clients = [a \in Agents |-> [VerifyKey |-> VerifyKeyOf(a), Status |-> TRUE,
                                    NoStore |-> FALSE, ConfigConnAllow |-> TRUE]]
    /\ verifyEer = [c \in ConnIds |-> FALSE]


----------------------------------------------------------------------------
(* Secret connections: DealBridgeTask on SecretChan; stopping a tunnel     *)

\* the 32 bytes a secret connection presents
SecretHashes == {Md5(pw) : pw \in Passwords} \cup {Md5("zz")}

\* server.StopServer on a running tunnel: its status is stored as false
StopServer(id) ==
    /\ id \in DOMAIN Tasks
    /\ Tasks[id].Status
    /\ Tasks' = [Tasks EXCEPT ![id].Status = FALSE]
    /\ UNCHANGED <<bridgeVars, auxVars, Hosts, got, getPhase, down, TaskIncreaseId,
                   HostIncreaseId, connVars>>

\* server.StartTask on a stopped tunnel
StartTask(id) ==
    /\ id \in DOMAIN Tasks
    /\ ~Tasks[id].Status
    /\ Tasks' = [Tasks EXCEPT ![id].Status = TRUE]
    /\ UNCHANGED <<bridgeVars, auxVars, Hosts, got, getPhase, down, TaskIncreaseId,
                   HostIncreaseId, connVars>>

\* DbUtils.GetTaskByMd5Password: the tunnels the Range may stop at
GetTaskByMd5Password(p) == {i \in DOMAIN Tasks : Md5(Tasks[i].Password) = p}

\* DealBridgeTask receives a secret connection that presented the hash p: with
\* a tunnel found and its status true DealClient is started on the
\* connection, otherwise the connection is closed
DealBridgeTaskSecret(p) ==
    /\ IF GetTaskByMd5Password(p) = {}
       THEN secret' = [phase |-> ~secret.phase, hash |-> p, task |-> Nil,
                       fwd |-> FALSE, closed |-> TRUE]
       ELSE \E t \in GetTaskByMd5Password(p) :
                secret' = [phase |-> ~secret.phase, hash |-> p, task |-> t,
                           fwd |-> Tasks[t].Status, closed |-> ~Tasks[t].Status]
    /\ UNCHANGED notSecret

\* no secret connection yet; no quota, no traffic
SecretIdle ==
    secret = [phase |-> FALSE, hash |-> Md5(""), task |-> Nil, fwd |-> FALSE, closed |-> FALSE]

QuotaIdle == FlowLimit = 0 /\ FlowUsed = 0

----------------------------------------------------------------------------
(* Sock5ModeServer: handleConn, Auth, handleRequest                        *)

\* connections accepted by the SOCKS5 listener during a run
MaxSocks == 2
SocksConns == 1..MaxSocks

connectMethod == 1
bindMethod == 2
associateMethod == 3
commandNotSupported == 7
UserPassAuth == 2
userAuthVersion == 1
authSuccess == 0
authFailure == 1

\* the account settings of a tunnel: none, the agent's Cnf.U and Cnf.P, or a
\* MultiAccount map; the names and passwords a peer may send
SocksUsers == {"u", "v"}
SocksPasses == {"a", "b"}
CnfU == "u"
CnfP == "a"
AccountMap == [x \in {"u"} |-> "a"]

NoSocksConn == [st |-> "none", out |-> <<>>, cmd |-> 0, rejected |-> FALSE]

\* NewSock5ModeServer for a tunnel with the account settings cfg
NewSock5ModeServer(cfg) ==
    /\ socks.cfg = "unset"
    /\ socks' = [socks EXCEPT !.cfg = cfg]
    /\ UNCHANGED notSocks

\* handleConn up to the method reply, for a greeting of the given version
\* that lists its methods in full
handleConn(c, version) ==
    /\ socks.cfg # "unset"
    /\ socks.conn[c].st = "none"
    /\ \A d \in SocksConns : d < c => socks.conn[d].st # "none"
    /\ socks' = [socks EXCEPT !.conn[c] =
                   IF version # 5 THEN [@ EXCEPT !.st = "closed"]
                   ELSE IF socks.cfg \in {"cnf", "multi"}
                   THEN [@ EXCEPT !.st = "auth", !.out = Append(@, <<5, UserPassAuth>>)]
                   ELSE [@ EXCEPT !.st = "request", !.out = Append(@, <<5, 0>>)]]
    /\ UNCHANGED notSocks

\* Auth for a request of version userAuthVersion carrying user and pass, and
\* handleConn's reaction to its result
Auth(c, user, pass) ==
    /\ socks.conn[c].st = "auth"
    /\ socks' = [socks EXCEPT !.conn[c] =
                   IF socks.cfg = "multi" /\ user \notin DOMAIN AccountMap
                   THEN [@ EXCEPT !.st = "closed", !.rejected = TRUE]
                   ELSE LET U == IF socks.cfg = "multi" THEN user ELSE CnfU
                            P == IF socks.cfg = "multi" THEN AccountMap[user] ELSE CnfP
                        IN IF user = U /\ pass = P
                           THEN [@ EXCEPT !.st = "request",
                                          !.out = Append(@, <<userAuthVersion, authSuccess>>)]
                           ELSE [@ EXCEPT !.st = "closed", !.rejected = TRUE,
                                          !.out = Append(@, <<userAuthVersion, authFailure>>)]]
    /\ UNCHANGED notSocks

\* sendReply: version, reply code, reserved, address type (the bound address follows)
sendReply(rep) == <<5, rep, 0, 1>>

\* handleRequest for a request header with command cmd
handleRequest(c, cmd) ==
    /\ socks.conn[c].st = "request"
    /\ socks' = [socks EXCEPT !.conn[c] =
                   IF cmd = connectMethod THEN [@ EXCEPT !.st = "connect", !.cmd = cmd]
                   ELSE IF cmd = bindMethod THEN [@ EXCEPT !.st = "returned", !.cmd = cmd]
                   ELSE IF cmd = associateMethod THEN [@ EXCEPT !.st = "udp", !.cmd = cmd]
                   ELSE [@ EXCEPT !.st = "closed", !.cmd = cmd,
                                  !.out = Append(@, sendReply(commandNotSupported))]]
    /\ UNCHANGED notSocks

\* no SOCKS5 service yet
SocksIdle == socks = [cfg |-> "unset", conn |-> [c \in SocksConns |-> NoSocksConn]]

----------------------------------------------------------------------------
(* HttpsServer.Start with certificates: one goroutine per connection       *)

\* connections accepted by the HTTPS listener during a run
MaxHttps == 2
HttpsConns == 1..MaxHttps

\* the server names of a ClientHello ("" when it carries none), and the keys
\* of httpsListenerMap
ServerNames == {"", "a.com", "b.com"}
ListenerKeys == {"default", "a.com", "b.com"}

NoHttpsConn == [pc |-> "none", name |-> "", l |-> 0, fed |-> 0]

\* Start up to the accept loop: the default listener is made and stored when
\* the default certificate files exist
HttpsStart(defaultCert) ==
    /\ ~https.started
    /\ https' = IF defaultCert
                THEN [https EXCEPT !.started = TRUE, !.nl = 1,
                                   !.made["default"] = 1, !.map["default"] = 1]
                ELSE [https EXCEPT !.started = TRUE]
    /\ UNCHANGED notHttps

\* conn.Accept hands a connection to its own goroutine, which reads the
\* server name of the ClientHello
httpsAccept(c, serverName) ==
    /\ https.started
    /\ https.h[c].pc = "none"
    /\ \A d \in HttpsConns : d < c => https.h[d].pc # "none"
    /\ https' = [https EXCEPT !.h[c] = [@ EXCEPT !.pc = "load",
                    !.name = IF serverName = "" THEN "default" ELSE serverName]]
    /\ UNCHANGED notHttps

\* the goroutine of c: httpsListenerMap.Load, then on a miss GetInfoByHost
\* (known tells whether a host matches) and the certificate files of the
\* host (certs tells whether both exist)
httpsLoad(c, known, certs) ==
    /\ https.h[c].pc = "load"
    /\ LET name == https.h[c].name
       IN https' = [https EXCEPT !.h[c] =
            IF https.map[name] # 0 THEN [@ EXCEPT !.pc = "feed", !.l = https.map[name]]
            ELSE IF ~known THEN [@ EXCEPT !.pc = "closed"]
            ELSE IF certs THEN [@ EXCEPT !.pc = "create"]
            ELSE IF https.map["default"] # 0
                 THEN [@ EXCEPT !.pc = "feed", !.l = https.map["default"]]
                 ELSE [@ EXCEPT !.pc = "closed"]]
    /\ UNCHANGED notHttps

\* the goroutine of c: NewHttpsListener, NewHttps and httpsListenerMap.Store
httpsCreate(c) ==
    /\ https.h[c].pc = "create"
    /\ LET name == https.h[c].name
           new == https.nl + 1
       IN https' = [https EXCEPT !.nl = new, !.made[name] = @ + 1, !.map[name] = new,
                                 !.h[c] = [@ EXCEPT !.pc = "feed", !.l = new]]
    /\ UNCHANGED notHttps

\* the goroutine of c: l.acceptConn <- acceptConn
httpsFeed(c) ==
    /\ https.h[c].pc = "feed"
    /\ https' = [https EXCEPT !.h[c] = [@ EXCEPT !.pc = "done", !.fed = https.h[c].l]]
    /\ UNCHANGED notHttps

\* no HTTPS server yet
HttpsIdle ==
    https = [started |-> FALSE, nl |-> 0,
             made |-> [k \in ListenerKeys |-> 0], map |-> [k \in ListenerKeys |-> 0],
             h |-> [c \in HttpsConns |-> NoHttpsConn]]

----------------------------------------------------------------------------
(* httpServer.handleHttp with useCache, for GET /img.png of one host       *)

\* client connections and requests of a run
MaxWeb == 2
MaxReqs == 2
WebConns == 1..MaxWeb

\* the length of the dumped response of the target
RespLens == {1, 2}

NoWebConn == [pc |-> "none", fwd |-> 0, keep |-> FALSE]

\* handleHttp from its entry to the start of the response goroutine, for a
\* first request with the given Connection header: the host is found and
\* admitted, SendLinkInfo opens the upstream stream
handleHttpOpen(c, keep) ==
    /\ web.h[c].pc = "none"
    /\ \A d \in WebConns : d < c => web.h[d].pc # "none"
    /\ web.reqs < MaxReqs
    /\ web' = [web EXCEPT !.reqs = @ + 1, !.streams = @ + 1,
                          !.h[c] = [@ EXCEPT !.pc = "loop", !.keep = keep]]
    /\ UNCHANGED notWeb

\* one pass of the request loop: a cached response is written and counted,
\* anything else is forwarded on the upstream stream
handleHttpLoop(c) ==
    /\ web.h[c].pc = "loop"
    /\ web' = IF web.cache # 0
              THEN [web EXCEPT !.out = @ + web.cache, !.written = @ + web.cache,
                               !.answered = @ + 1, !.hits = @ + 1,
                               !.h[c] = [@ EXCEPT !.pc = IF web.h[c].keep THEN "read" ELSE "wait"]]
              ELSE [web EXCEPT !.h[c] = [@ EXCEPT !.pc = "read", !.fwd = @ + 1]]
    /\ UNCHANGED notWeb

\* readReq: the next request of the connection, or the end of its requests
handleHttpRead(c, more, keep) ==
    /\ web.h[c].pc = "read"
    /\ more => web.reqs < MaxReqs
    /\ web' = IF more
              THEN [web EXCEPT !.reqs = @ + 1, !.h[c] = [@ EXCEPT !.pc = "loop", !.keep = keep]]
              ELSE [web EXCEPT !.h[c] = [@ EXCEPT !.pc = "wait"]]
    /\ UNCHANGED notWeb

\* the response goroutine: a response of n bytes is dumped, written to the
\* client, counted and cached
handleHttpResponse(c, n) ==
    /\ web.h[c].pc \in {"loop", "read", "wait"}
    /\ web.h[c].fwd > 0
    /\ web' = [web EXCEPT !.out = @ + n, !.written = @ + n, !.answered = @ + 1,
                          !.cache = n, !.h[c] = [@ EXCEPT !.fwd = @ - 1]]
    /\ UNCHANGED notWeb

\* the upstream stream ends, wg.Wait returns
handleHttpEnd(c) ==
    /\ web.h[c].pc = "wait"
    /\ web.h[c].fwd = 0
    /\ web' = [web EXCEPT !.h[c] = [@ EXCEPT !.pc = "done"]]
    /\ UNCHANGED notWeb

\* no request yet, an empty cache
WebIdle ==
    web = [cache |-> 0, streams |-> 0, out |-> 0, written |-> 0, reqs |-> 0,
           answered |-> 0, hits |-> 0, h |-> [c \in WebConns |-> NoWebConn]]

----------------------------------------------------------------------------
(* Rate: the token bucket                                                  *)

\* the largest rate of a limiter, in tokens per second
MaxRate == 4

\* Rate.add: the new number of tokens of bucket r
RateAdd(r, size) ==
    IF r.bucketSize - r.bucketSurplusSize < r.bucketAddSize
    THEN r.bucketSurplusSize + (r.bucketSize - r.bucketSurplusSize)
    ELSE r.bucketSurplusSize + size

\* NewRate and Start
NewRate(addSize) ==
    /\ rate.pc = "none"
    /\ rate' = [rate EXCEPT !.pc = "run", !.bucketSize = addSize * 2,
                            !.bucketSurplusSize = 0, !.bucketAddSize = addSize]
    /\ UNCHANGED notRate

\* one tick of session: NowRate, then add(bucketAddSize)
RateSession ==
    /\ rate.pc # "none"
    /\ rate' = [rate EXCEPT
                  !.NowRate = IF rate.bucketAddSize - rate.bucketSurplusSize > 0
                              THEN rate.bucketAddSize - rate.bucketSurplusSize
                              ELSE rate.bucketSize - rate.bucketSurplusSize,
                  !.bucketSurplusSize = RateAdd(rate, rate.bucketAddSize),
                  !.pc = "run"]
    /\ UNCHANGED notRate

\* Get returns once the bucket holds size tokens
RateGet(size) ==
    /\ rate.pc # "none"
    /\ rate.bucketSurplusSize >= size
    /\ rate' = [rate EXCEPT !.bucketSurplusSize = @ - size, !.pc = "got",
                            !.before = rate.bucketSurplusSize, !.size = size]
    /\ UNCHANGED notRate

\* ReturnBucket(size) by the caller of the last Get, for tokens it got; the
\* return of all of them is marked
ReturnBucket(size) ==
    /\ rate.pc = "got"
    /\ size <= rate.size
    /\ rate' = [rate EXCEPT !.bucketSurplusSize = RateAdd(rate, size),
                            !.pc = IF rate.size = size THEN "returned" ELSE "run"]
    /\ UNCHANGED notRate

\* rateConn.Read or Write moved size bytes and calls Get(size)
RateGetCall(size) ==
    /\ rate.pc # "none"
    /\ rate.want = 0
    /\ rate' = [rate EXCEPT !.want = size]
    /\ UNCHANGED notRate

\* the Get that was called finds the tokens, at once or at a poll, takes them
\* and returns
RateGetReturn ==
    /\ rate.want > 0
    /\ rate.bucketSurplusSize >= rate.want
    /\ rate' = [rate EXCEPT !.bucketSurplusSize = @ - rate.want, !.want = 0,
                            !.pc = "got", !.before = rate.bucketSurplusSize,
                            !.size = rate.want]
    /\ UNCHANGED notRate

\* the goroutines that call Get on one limiter: the connections of an agent
\* share its Rate
RateGetters == {1, 2}

\* Get's test of the bucket by getter x, at once or at a poll: with size
\* tokens there it goes on to take them
RateGetTest(x, size) ==
    /\ rate.pc # "none"
    /\ rate.g[x].pc = "idle"
    /\ rate.bucketSurplusSize >= size
    /\ rate' = [rate EXCEPT !.g[x] = [pc |-> "take", size |-> size]]
    /\ UNCHANGED notRate

\* Get's atomic.AddInt64 of -size by getter x, and its return
RateGetTake(x) ==
    /\ rate.g[x].pc = "take"
    /\ rate' = [rate EXCEPT !.bucketSurplusSize = @ - rate.g[x].size,
                            !.g[x] = [pc |-> "idle", size |-> 0],
                            !.pc = "got", !.before = rate.bucketSurplusSize,
                            !.size = rate.g[x].size]
    /\ UNCHANGED notRate

\* no limiter yet
RateIdle ==
    rate = [pc |-> "none", bucketSize |-> 0, bucketSurplusSize |-> 0,
            bucketAddSize |-> 0, NowRate |-> 0, before |-> 0, size |-> 0, want |-> 0,
            g |-> [x \in RateGetters |-> [pc |-> "idle", size |-> 0]]]

----------------------------------------------------------------------------
(* getConfig, NEW_TASK: the port list and the target list                  *)

\* the largest port number of a request
MaxPort == 2

\* an entry of a comma-separated list: <<0>> is text that is no port, <<a>> a
\* port, <<a, b>> the range a-b; a list has two entries
PortItems == {<<0>>, <<0, 1>>} \cup {<<a>> : a \in 1..MaxPort}
                \cup {<<a, b>> : a, b \in 1..MaxPort}
PortLists == {<<i1, i2>> : i1, i2 \in PortItems}

IsPort(p) == p >= 1 /\ p <= 65536

RECURSIVE PortRange(_, _)
PortRange(start, end) == IF start > end THEN <<>> ELSE <<start>> \o PortRange(start + 1, end)

\* common.GetPorts
RECURSIVE GetPorts(_)
GetPorts(p) ==
    IF p = <<>> THEN <<>>
    ELSE LET fw == Head(p)
         IN (IF Len(fw) = 2
             THEN IF IsPort(fw[1]) /\ IsPort(fw[2]) THEN PortRange(fw[1], fw[2]) ELSE <<>>
             ELSE IF IsPort(fw[1]) THEN <<fw[1]>> ELSE <<>>)
            \o GetPorts(Tail(p))

\* the loop over ports from index i on: HasTunnel, NewTask, TestServerPort
\* and the token of each port; free tells whether the ports can be listened
\* on and the password is unused
RECURSIVE TaskLoop(_, _, _, _, _, _, _)
TaskLoop(mode, ports, targets, free, i, held, made) ==
    IF i > Len(ports) THEN [reply |-> "ok", made |-> made]
    ELSE IF Len(ports) > 1 /\ i > Len(targets) THEN [reply |-> "panic", made |-> made]
    ELSE IF ports[i] \in held /\ ports[i] # 0
         THEN TaskLoop(mode, ports, targets, free, i + 1, held, made)
    ELSE IF mode = "secret" /\ ~free THEN [reply |-> "fail", made |-> made]
    ELSE IF ~free /\ mode # "secret" THEN [reply |-> "fail", made |-> Append(made, ports[i])]
    ELSE TaskLoop(mode, ports, targets, free, i + 1, held \cup {ports[i]}, Append(made, ports[i]))

\* the loop over ports without the comparison of the two lists before it
getConfigTaskUnchecked(mode, p, t, free) ==
    /\ nt.pc = "loop"
    /\ LET ports == IF mode = "secret" THEN Append(GetPorts(p), 0) ELSE GetPorts(p)
           targets == GetPorts(t)
           r == IF Len(ports) = 0 THEN [reply |-> "fail", made |-> <<>>]
                ELSE TaskLoop(mode, ports, targets, free, 1, nt.held, <<>>)
       IN nt' = [nt EXCEPT !.pc = "done", !.mode = mode, !.np = Len(GetPorts(p)),
                           !.ntg = Len(targets), !.reply = r.reply, !.made = r.made]
    /\ UNCHANGED notNt

\* the loop reads NEW_TASK and a tunnel of the given mode with port list p
\* and target list t
getConfigTask(mode, p, t, free) ==
    /\ nt.pc = "loop"
    /\ LET ports == IF mode = "secret" THEN Append(GetPorts(p), 0) ELSE GetPorts(p)
           targets == GetPorts(t)
           r == IF Len(GetPorts(p)) > 1 /\ mode \in {"tcp", "udp"}
                    /\ Len(GetPorts(p)) # Len(targets)
                THEN [reply |-> "fail", made |-> <<>>]
                ELSE IF Len(ports) = 0 THEN [reply |-> "fail", made |-> <<>>]
                ELSE TaskLoop(mode, ports, targets, free, 1, nt.held, <<>>)
       IN nt' = [nt EXCEPT !.pc = "done", !.mode = mode, !.np = Len(GetPorts(p)),
                           !.ntg = Len(targets), !.reply = r.reply, !.made = r.made]
    /\ UNCHANGED notNt

\* the agent of the config connection has tunnels on the ports held
getConfigHeld(held) ==
    /\ nt.pc = "idle"
    /\ nt' = [nt EXCEPT !.pc = "loop", !.held = held]
    /\ UNCHANGED notNt

\* no config connection with a port list yet
NtIdle ==
    nt = [pc |-> "idle", held |-> {}, mode |-> "", np |-> 0, ntg |-> 0,
          reply |-> "", made |-> <<>>]

----------------------------------------------------------------------------
(* DbUtils.GetInfoByHost against one wildcard host                         *)

\* request hosts are strings of up to MaxHostLen of these pieces
MaxHostLen == 7
HostPieces == {"x", "a", "com", "."}
RequestHosts == UNION {[1..n -> HostPieces] : n \in 1..MaxHostLen}

\* the one host of the repository: *.a.com, any scheme, any location
WildHost == <<"*", ".", "a", ".", "com">>

\* the name test of GetInfoByHost for a stored name vHost and a request host
\* without a port: a name with * is stripped of it and looked for inside
\* the request host, any other name must equal it
HostNameMatches(vHost, host) ==
    IF Contains(vHost, <<"*">>)
    THEN Contains(host, SelectSeq(vHost, LAMBDA ch : ch # "*"))
    ELSE vHost = host

\* GetInfoByHost for a request of the given host and URI /
GetInfoByHost(host) ==
    /\ hm.pc = "idle"
    /\ hm' = [pc |-> "done", host |-> host, found |-> HostNameMatches(WildHost, host)]
    /\ UNCHANGED notHm

\* no lookup yet
HmIdle == hm = [pc |-> "idle", host |-> <<>>, found |-> FALSE]

----------------------------------------------------------------------------
(* the agent-side prober: check                                            *)

\* the largest HealthMaxFail, and the largest count a target reaches
MaxHealthFail == 2
MaxProbeFails == 4
ProbeTargets == {"t1", "t2"}

\* the health settings arrive with a positive HealthMaxFail
HealthStart(maxFail) ==
    /\ hc.HealthMaxFail = 0
    /\ hc' = [hc EXCEPT !.HealthMaxFail = maxFail]
    /\ UNCHANGED notHc

\* the body of check's loop for one target, given the old entry e and
\* whether the probe succeeded
CheckTarget(e, ok, maxFail) ==
    LET n == IF ~ok THEN e.n + 1
             ELSE IF e.n >= maxFail THEN 0 ELSE e.n
        one == ok /\ e.n >= maxFail
        zero == n > 0 /\ n % maxFail = 0
    IN [n |-> n,
        run |-> IF ok THEN 0 ELSE e.run + 1,
        msg |-> IF one THEN "1" ELSE IF zero THEN "0" ELSE "",
        down |-> IF one THEN FALSE ELSE IF zero THEN TRUE ELSE e.down,
        back |-> ok /\ e.down]

\* check: every target is probed, oks holding the results
check(oks) ==
    /\ hc.HealthMaxFail > 0
    /\ \A v \in ProbeTargets : ~oks[v] => hc.t[v].n < MaxProbeFails
    /\ hc' = [hc EXCEPT !.t = [v \in ProbeTargets |->
                                 CheckTarget(hc.t[v], oks[v], hc.HealthMaxFail)]]
    /\ UNCHANGED notHc

\* no health settings yet
HcIdle ==
    hc = [HealthMaxFail |-> 0,
          t |-> [v \in ProbeTargets |->
                   [n |-> 0, run |-> 0, msg |-> "", down |-> FALSE, back |-> FALSE]]]

----------------------------------------------------------------------------
(* GetHealthFromClient and GetRandomTarget on one tunnel, lock by lock     *)

\* the tunnel is stored with the target string str
lbNewTask(str) ==
    /\ lb.pc = "none"
    /\ lb' = [lb EXCEPT !.pc = "run", !.v = Tunnel(1, "tcp", "x", str)]
    /\ UNCHANGED notLb

\* GetHealthFromClient: a report (info, status) matches the tunnel and the
\* reader takes v.Lock(), the tunnel's own lock
lbHealthLock(info, status) ==
    /\ lb.pc = "run"
    /\ lb.hpc = "idle"
    /\ lb.vLock = ""
    /\ Len(lb.v.HealthRemoveArr) < MaxRemoved
    /\ IF status
       THEN IsArrContains(lb.v.HealthRemoveArr, info)
                /\ ~IsArrContains(lb.v.Target.TargetArr, info)
       ELSE Contains(lb.v.Target.TargetStr, info)
    /\ lb' = [lb EXCEPT !.hpc = "locked", !.vLock = "health",
                        !.info = info, !.status = status]
    /\ UNCHANGED notLb

\* GetHealthFromClient: TargetArr and HealthRemoveArr are changed, v.Unlock()
lbHealthApply ==
    /\ lb.hpc = "locked"
    /\ lb' = [lb EXCEPT !.hpc = "idle", !.vLock = "",
                        !.v = IF lb.status
                              THEN [@ EXCEPT !.Target.TargetArr = Append(@, lb.info),
                                             !.Target.TargetArrNil = FALSE,
                                             !.HealthRemoveArr = RemoveArrVal(@, lb.info)]
                              ELSE HealthRemove(@, lb.info)]
    /\ UNCHANGED notLb

\* GetRandomTarget is entered: its first reads of TargetArr take no lock
lbGetEnter ==
    /\ lb.pc = "run"
    /\ lb.gpc = "idle"
    /\ lb' = [lb EXCEPT !.gpc = "entered", !.res = ""]
    /\ UNCHANGED notLb

\* GetRandomTarget before s.Lock(): a nil TargetArr is filled, one target is
\* returned, no target is an error
lbGetCheck ==
    /\ lb.gpc = "entered"
    /\ LET s == lb.v.Target
           arr == IF s.TargetArrNil THEN Split(s.TargetStr) ELSE s.TargetArr
       IN lb' = [lb EXCEPT !.v.Target.TargetArr = arr, !.v.Target.TargetArrNil = FALSE,
                           !.gpc = IF Len(arr) \in {0, 1} THEN "idle" ELSE "wait",
                           !.res = IF Len(arr) = 1 THEN "val"
                                   ELSE IF Len(arr) = 0 THEN "err" ELSE ""]
    /\ UNCHANGED notLb

\* GetRandomTarget: s.Lock(), the lock of the Target
lbGetLock ==
    /\ lb.gpc = "wait"
    /\ lb.tLock = ""
    /\ lb' = [lb EXCEPT !.gpc = "locked", !.tLock = "get"]
    /\ UNCHANGED notLb

\* GetRandomTarget: the index moves on and TargetArr is read at it; an index
\* outside TargetArr panics; the deferred s.Unlock()
lbGetIndex ==
    /\ lb.gpc = "locked"
    /\ LET s == lb.v.Target
           idx == (IF s.nowIndex >= Len(s.TargetArr) - 1 THEN -1 ELSE s.nowIndex) + 1
       IN lb' = [lb EXCEPT !.v.Target.nowIndex = idx, !.gpc = "idle", !.tLock = "",
                           !.res = IF idx + 1 <= Len(s.TargetArr) THEN "val" ELSE "panic"]
    /\ UNCHANGED notLb

\* no tunnel yet
LbIdle ==
    lb = [pc |-> "none", v |-> Tunnel(1, "tcp", "x", StrA), vLock |-> "", tLock |-> "",
          hpc |-> "idle", gpc |-> "idle", info |-> <<>>, status |-> FALSE, res |-> ""]

----------------------------------------------------------------------------
(* goroutine: copyConns, copyConnGroup and common.CopyBuffer               *)

\* chunks a direction copies before its peer stops sending
MaxChunks == 2

\* direction 1 copies conn2 to conn1, direction 2 copies conn1 to conn2
CopyDirs == {1, 2}
SrcOf(d) == IF d = 1 THEN "conn2" ELSE "conn1"
DstOf(d) == IF d = 1 THEN "conn1" ELSE "conn2"

\* what one pass of CopyBuffer's loop can meet: a chunk read and written, the
\* end of the stream, a failed Read, a failed Write, a short Write
CopyOutcomes == {"data", "eof", "read", "write", "short"}

\* CopyBuffer as io.Copy has it: the end of the stream is no error
CopyBufferEofNil(d, outcome) ==
    /\ cp.t[d].pc = "copy"
    /\ cp.sock[SrcOf(d)] = "closed" => outcome = "read"
    /\ (outcome = "data" /\ cp.sock[DstOf(d)] = "closed") => FALSE
    /\ outcome = "data" => cp.t[d].n < MaxChunks
    /\ cp' = [cp EXCEPT !.t[d] =
                IF outcome = "data" THEN [@ EXCEPT !.n = @ + 1]
                ELSE [@ EXCEPT !.pc = "ret", !.err = IF outcome = "eof" THEN "" ELSE outcome]]
    /\ UNCHANGED notCp

\* one pass of CopyBuffer's loop in direction d: a Read on a socket closed on
\* this side fails, a chunk cannot be written to one; every break leaves err set
CopyBuffer(d, outcome) ==
    /\ cp.t[d].pc = "copy"
    /\ cp.sock[SrcOf(d)] = "closed" => outcome = "read"
    /\ (outcome = "data" /\ cp.sock[DstOf(d)] = "closed") => FALSE
    /\ outcome = "data" => cp.t[d].n < MaxChunks
    /\ cp' = [cp EXCEPT !.t[d] =
                IF outcome = "data" THEN [@ EXCEPT !.n = @ + 1]
                ELSE [@ EXCEPT !.pc = "ret", !.err = outcome]]
    /\ UNCHANGED notCp

\* copyConnGroup after CopyBuffer returned: with an error both sockets are
\* closed; wg.Done()
copyConnGroup(d) ==
    /\ cp.t[d].pc = "ret"
    /\ cp' = [cp EXCEPT !.t[d].pc = "done", !.wg = @ - 1,
                        !.sock = IF cp.t[d].err # ""
                                 THEN [s \in {"conn1", "conn2"} |-> "closed"] ELSE @]
    /\ UNCHANGED notCp

\* copyConns: wg.Add(2), the two directions are handed to the pool
copyConns ==
    /\ cp.pc = "none"
    /\ cp' = [cp EXCEPT !.pc = "wait", !.wg = 2,
                        !.t = [d \in CopyDirs |-> [pc |-> "copy", err |-> "", n |-> 0]]]
    /\ UNCHANGED notCp

\* copyConns: wg.Wait() returns, the flow is counted, the caller is told
copyConnsJoin ==
    /\ cp.pc = "wait"
    /\ cp.wg = 0
    /\ cp' = [cp EXCEPT !.pc = "joined"]
    /\ UNCHANGED notCp

\* no copy pair yet
CpIdle ==
    cp = [pc |-> "none", wg |-> 0, sock |-> [s \in {"conn1", "conn2"} |-> "open"],
          t |-> [d \in CopyDirs |-> [pc |-> "idle", err |-> "", n |-> 0]]]

----------------------------------------------------------------------------
(* the agent-side health scheduler: heathCheck and session                 *)

\* the clock counts half seconds up to MaxClock; intervals are whole seconds
MaxClock == 8
HalfSeconds == 2
HealthIntervals == {1, 2}
HealthConfigs == {1, 2}

\* time.Time.Unix(): the whole seconds of a time in half seconds
Unix(t) == t \div HalfSeconds

\* heap.Pop on the deadlines: the position of a smallest entry
HeapMin(h) == CHOOSE i \in 1..Len(h) : \A j \in 1..Len(h) : h[i] <= h[j]
HeapPop(h) == SubSeq(h, 1, HeapMin(h) - 1) \o SubSeq(h, HeapMin(h) + 1, Len(h))

\* the clock moves on by half a second
HealthTick ==
    /\ hs.now < MaxClock
    /\ hs' = [hs EXCEPT !.now = @ + 1]
    /\ UNCHANGED notHs

\* the deadlines pushed for the configs of cfgs that are due at time t, one
\* after the other, and their new HealthNextTime
RECURSIVE PushDue(_, _, _, _)
PushDue(cfgs, t, iv, h) ==
    IF cfgs = {} THEN h
    ELSE LET v == CHOOSE x \in cfgs : \A y \in cfgs : x <= y
         IN PushDue(cfgs \ {v}, t, iv, Append(h, Unix(t + iv[v] * HalfSeconds)))

\* heathCheck, first call: every config with positive settings gets its next
\* time and a heap entry, then session is started
heathCheck(iv) ==
    /\ hs.pc = "none"
    /\ hs' = [hs EXCEPT !.pc = "pop", !.iv = iv,
                        !.next = [v \in DOMAIN iv |-> hs.now + iv[v] * HalfSeconds],
                        !.heap = PushDue(DOMAIN iv, hs.now, iv, <<>>)]
    /\ UNCHANGED notHs

\* session, top of the loop: an empty heap ends the loop; the nearest
\* deadline is popped; one that is not in the future is dropped; otherwise a
\* timer of rs seconds is started
sessionPop ==
    /\ hs.pc = "pop"
    /\ hs' = IF Len(hs.heap) = 0 THEN [hs EXCEPT !.pc = "stopped"]
             ELSE LET rs == hs.heap[HeapMin(hs.heap)] - Unix(hs.now)
                  IN IF rs <= 0 THEN [hs EXCEPT !.heap = HeapPop(@)]
                     ELSE [hs EXCEPT !.heap = HeapPop(@), !.pc = "timer",
                                     !.fireAt = hs.now + rs * HalfSeconds]
    /\ UNCHANGED notHs

\* session, the timer fires: every config whose next time is before now is
\* probed, gets a new next time and a new heap entry
sessionTimer ==
    /\ hs.pc = "timer"
    /\ hs.now >= hs.fireAt
    /\ LET due == {v \in DOMAIN hs.iv : hs.next[v] < hs.now}
       IN hs' = [hs EXCEPT !.pc = "pop",
                           !.next = [v \in DOMAIN hs.iv |->
                                       IF v \in due THEN hs.now + hs.iv[v] * HalfSeconds
                                       ELSE hs.next[v]],
                           !.heap = PushDue(due, hs.now, hs.iv, @),
                           !.probed = due]
    /\ UNCHANGED notHs

\* no health check started
HsIdle ==
    hs = [pc |-> "none", now |-> 0, heap |-> <<>>, iv |-> <<>>, next |-> <<>>,
          fireAt |-> 0, probed |-> {}]

----------------------------------------------------------------------------
(* PortMux: the accept loop of Start, process's send, Close, and            *)
(* PortListener.Accept                                                     *)

\* the connections the shared port takes and the callers of Accept on the
\* HTTP sub-listener; every connection here is classified as HTTP
MaxMuxConns == 2
MaxAccepts == 2
MuxConns == 1..MaxMuxConns
MuxAccepts == 1..MaxAccepts

\* the loop of Start with a connection: go pMux.process(conn), which reads
\* and classifies and comes to its select
PortMuxStartAccept(c) ==
    /\ ~mx.panicked
    /\ ~mx.listenerClosed
    /\ mx.p[c] = "none"
    /\ mx' = [mx EXCEPT !.p[c] = "offer", !.rounds = @ + 1]
    /\ UNCHANGED notMx

\* the loop of Start with the listener closed: Accept returns an error,
\* Close answers that the multiplexer has closed, and process is started
\* with the nil connection, whose first read panics; the loop goes round
PortMuxStartErr ==
    /\ ~mx.panicked
    /\ mx.listenerClosed
    /\ mx' = [mx EXCEPT !.panicked = TRUE, !.nilProcess = TRUE, !.rounds = @ + 1]
    /\ UNCHANGED notMx

\* Close: the flag, the four channels, the listener
PortMuxClose ==
    /\ ~mx.panicked
    /\ ~mx.isClose
    /\ mx' = [mx EXCEPT !.isClose = TRUE, !.chClosed = TRUE, !.listenerClosed = TRUE]
    /\ UNCHANGED notMx

\* process's select, the send taken: a receiver is waiting on the open
\* channel and gets the connection
processSend(c, a) ==
    /\ ~mx.panicked
    /\ mx.p[c] = "offer"
    /\ ~mx.chClosed
    /\ mx.a[a] = "blocked"
    /\ mx' = [mx EXCEPT !.p[c] = "sent", !.a[a] = "conn"]
    /\ UNCHANGED notMx

\* process's select, the send taken on the closed channel: a panic
processSendClosed(c) ==
    /\ ~mx.panicked
    /\ mx.p[c] = "offer"
    /\ mx.chClosed
    /\ mx' = [mx EXCEPT !.p[c] = "panic", !.panicked = TRUE]
    /\ UNCHANGED notMx

\* process's select, the timer taken
processTimeout(c) ==
    /\ ~mx.panicked
    /\ mx.p[c] = "offer"
    /\ mx' = [mx EXCEPT !.p[c] = "dropped"]
    /\ UNCHANGED notMx

\* PortListener.Accept is called: it receives from the channel, and returns
\* the error at once when the channel is closed
PortListenerAccept(a) ==
    /\ ~mx.panicked
    /\ mx.a[a] = "idle"
    /\ mx' = [mx EXCEPT !.a[a] = IF mx.chClosed THEN "err" ELSE "blocked"]
    /\ UNCHANGED notMx

\* the receive of a blocked Accept ends with nil when the channel is closed
PortListenerWake(a) ==
    /\ ~mx.panicked
    /\ mx.a[a] = "blocked"
    /\ mx.chClosed
    /\ mx' = [mx EXCEPT !.a[a] = "err"]
    /\ UNCHANGED notMx

MxIdle ==
    mx = [isClose |-> FALSE, chClosed |-> FALSE, listenerClosed |-> FALSE,
          panicked |-> FALSE, nilProcess |-> FALSE, rounds |-> 0,
          p |-> [c \in MuxConns |-> "none"], a |-> [a \in MuxAccepts |-> "idle"]]

----------------------------------------------------------------------------
(* handleHttp: CheckFlowAndConnNum, the deferred AddConn, and the reset on *)
(* a request for another host                                              *)

\* the connections on the HTTP proxy port, the agents, and the hosts with the
\* agent that owns each: hosts 1 and 2 are agent 1's, host 3 is agent 2's
HttpConnIds == {1, 2}
HttpAgents == {1, 2}
HttpHosts == {1, 2, 3}
HostClient(h) == IF h = 3 THEN 2 ELSE 1

\* Client.MaxConn of the agents: agent 1 has no limit
HttpMaxConnOf(a) == IF a = 1 THEN 0 ELSE 2

\* Client.GetConn's test
HttpGetConnTest(cnt, a) == HttpMaxConnOf(a) = 0 \/ cnt[a] < HttpMaxConnOf(a)

\* the counts after handleHttp returns: the deferred AddConn runs
HttpDeferred(cnt, deferred) ==
    IF deferred = 0 THEN cnt ELSE [cnt EXCEPT ![deferred] = @ - 1]

\* handleHttp from the label reset to the request loop, for the host the
\* request names, from counts cnt: the result is the new counts, whether the
\* handler goes on, and the agent whose AddConn it deferred.  With isReset the
\* host's agent is decremented first; the flow check and GetConn follow; the
\* defer is registered only without isReset; auth, GetRandomTarget or
\* SendLinkInfo may fail
HttpAdmit(cnt, h, isReset, deferred, flowOver, linkOk) ==
    LET a == HostClient(h)
        n1 == IF isReset THEN [cnt EXCEPT ![a] = @ - 1] ELSE cnt
    IN IF flowOver \/ ~HttpGetConnTest(n1, a)
       THEN [now |-> n1, on |-> FALSE, deferred |-> deferred]
       ELSE [now |-> [n1 EXCEPT ![a] = @ + 1], on |-> linkOk,
             deferred |-> IF isReset THEN deferred ELSE a]

\* handleHttp is called with the first request of connection c, which is for
\* host h
handleHttpEnter(c, h, flowOver, linkOk) ==
    /\ hh.c[c].pc = "new"
    /\ LET r == HttpAdmit(hh.now, h, FALSE, 0, flowOver, linkOk)
       IN hh' = IF r.on
                THEN [hh EXCEPT !.now = r.now,
                                !.c[c] = [pc |-> "loop", host |-> h, isReset |-> FALSE,
                                          deferred |-> r.deferred, flow |-> HostClient(h)]]
                ELSE [hh EXCEPT !.now = HttpDeferred(r.now, r.deferred),
                                !.c[c] = [pc |-> "done", host |-> h, isReset |-> FALSE,
                                          deferred |-> 0, flow |-> 0]]
    /\ UNCHANGED notHh

\* the next request of connection c is read and is for host h: the same host
\* keeps the flow; another host closes it, sets isReset and goes to reset
handleHttpRequest(c, h, flowOver, linkOk) ==
    /\ hh.c[c].pc = "loop"
    /\ IF h = hh.c[c].host
       THEN UNCHANGED hh
       ELSE LET r == HttpAdmit(hh.now, h, TRUE, hh.c[c].deferred, flowOver, linkOk)
            IN hh' = IF r.on
                     THEN [hh EXCEPT !.now = r.now,
                                     !.c[c] = [@ EXCEPT !.host = h, !.isReset = TRUE,
                                                        !.flow = HostClient(h)]]
                     ELSE [hh EXCEPT !.now = HttpDeferred(r.now, r.deferred),
                                     !.c[c] = [pc |-> "done", host |-> h, isReset |-> TRUE,
                                               deferred |-> 0, flow |-> 0]]
    /\ UNCHANGED notHh

\* the request loop of connection c ends (a read or write fails): the flow is
\* closed and handleHttp returns
handleHttpReturn(c) ==
    /\ hh.c[c].pc = "loop"
    /\ hh' = [hh EXCEPT !.now = HttpDeferred(hh.now, hh.c[c].deferred),
                        !.c[c] = [@ EXCEPT !.pc = "done", !.deferred = 0, !.flow = 0]]
    /\ UNCHANGED notHh

HhIdle ==
    hh = [now |-> [a \in HttpAgents |-> 0],
          c |-> [c \in HttpConnIds |->
                   [pc |-> "new", host |-> 0, isReset |-> FALSE, deferred |-> 0, flow |-> 0]]]

\* the services modelled one variable each, at rest
LaterIdle == SocksIdle /\ HttpsIdle /\ WebIdle /\ RateIdle /\ NtIdle /\ HmIdle /\ HcIdle /\ LbIdle /\ CpIdle /\ HsIdle /\ MxIdle /\ HhIdle

\* the subsystems beside the bridge, the repository and the counter at rest
SideIdleButQuota == P2PIdle /\ PmuxIdle /\ SecretIdle /\ LaterIdle
AuxIdle == AuthIdle /\ CfgIdle /\ SideIdleButQuota /\ QuotaIdle

----------------------------------------------------------------------------
(* Specifications of the bridge                                            *)

BridgeInit ==
    /\ Client = <<>>
    /\ connSt = [c \in ConnIds |-> "unused"]
    /\ closeTok = [c \in ConnIds |-> FALSE]
    /\ peerGone = [c \in ConnIds |-> FALSE]
    /\ health = [c \in ConnIds |-> Nil]
    /\ mux = [c \in ConnIds |-> "none"]
    /\ closeQ = {}
    /\ pingPhase = FALSE
    /\ flow = [f \in FlowIds |-> NoFlow]
    /\ Register = <<>>
    /\ now = 0
    /\ sigMiss = [a \in Agents |-> 0]
    /\ runMiss = [a \in Agents |-> 0]
    /\ dropAge = [f \in FlowIds |-> -1]
    /\ regIp = <<>>

\* the agents whose sessions the bridge specifications drive
Regular == Agents \ PubAgents

\* Sessions, heartbeat and teardown, with IP verification off.
Init ==
    /\ BridgeInit
    /\ AuxIdle
    /\ ipVerify = FALSE
    /\ DbIdle
    /\ ConnIdle

Next ==
    \/ \E id \in Agents : typeDealMain(id)
    \/ \E id \in Regular : typeDealChan(id)
    \/ \E id \in Regular : typeDealFile(id)
    \/ \E c \in ConnIds : PeerDrop(c)
    \/ \E c \in ConnIds : GetHealthFromClientEnd(c)
    \/ \E id \in Regular : DelClientConnect(id)
    \/ DealBridgeTaskCloseClient
    \/ ping

Spec == Init /\ [][Next]_vars

\* Public flows of a tcp tunnel over the session's tunnel-mux.
FlowNext ==
    \/ \E id \in Regular : typeDealMain(id)
    \/ \E id \in Regular : typeDealChan(id)
    \/ \E c \in ConnIds : PeerDrop(c)
    \/ \E c \in ConnIds : GetHealthFromClientEnd(c)
    \/ DealBridgeTaskCloseClient
    \/ ping
    \/ \E f \in FlowIds, id \in Regular : DealClient(f, id, AddrA, FALSE, "tcp")
    \/ \E f \in FlowIds : CopyEnd(f)
    \/ \E f \in FlowIds : PublicClose(f)

SpecFlow == Init /\ [][FlowNext]_vars

\* Link opening with the registered-IP check, IP verification on or off.
LinkInit ==
    /\ BridgeInit
    /\ AuxIdle
    /\ ipVerify \in BOOLEAN
    /\ DbIdle
    /\ ConnIdle

LinkNext ==
    \/ \E id \in Regular : typeDealChan(id)
    \/ \E id \in Regular : typeDealFile(id)
    \/ \E addr \in Addrs, hour \in RegisterHours : typeDealRegister(addr, hour)
    \/ Tick
    \/ \E f \in FlowIds, id \in Regular, addr \in Addrs, local \in BOOLEAN, mode \in {"tcp", "file"} :
          DealClient(f, id, addr, local, mode)

SpecLink == LinkInit /\ [][LinkNext]_vars

----------------------------------------------------------------------------
(* Specifications of the repository and of the connection counter          *)

\* One tunnel and one host, configured before the agent logs in; the agent's
\* health loop ingests reports while the proxies pick targets.
HealthInit ==
    /\ BridgeInit
    /\ AuxIdle
    /\ ipVerify = FALSE
    /\ \E client \in Agents, mode \in {"tcp", "file"}, str \in TargetStrs :
          Tasks = (1 :> Tunnel(client, mode, "", str))
    /\ \E str \in {StrA, <<"a", NL, "b">>} : Hosts = (1 :> Host(1, "h", "/", "all", str))
    /\ got = NoGot
    /\ getPhase = FALSE
    /\ TaskIncreaseId = 1
    /\ HostIncreaseId = 1
    /\ down = {}
    /\ ConnIdle

HealthNext ==
    \/ \E id \in Regular : typeDealMain(id)
    \/ \E c \in ConnIds, info \in Infos, status \in BOOLEAN : GetHealthFromClientReport(c, info, status)
    \/ \E i \in DOMAIN Tasks : ProcessTunnel(i)
    \/ \E j \in DOMAIN Hosts : handleHttp(j)

SpecHealth == HealthInit /\ [][HealthNext]_vars

\* Concurrent accept handlers of one agent's tunnels.
ConnInit ==
    /\ BridgeInit
    /\ AuthIdle
    /\ CfgIdle
    /\ SideIdleButQuota
    /\ FlowLimit \in FlowLimitChoices
    /\ FlowUsed \in FlowUsedChoices
    /\ ipVerify = FALSE
    /\ DbIdle
    /\ MaxConn \in MaxConnChoices
    /\ NowConn = 0
    /\ pc = [p \in Procs |-> "idle"]

ConnNext ==
    \/ \E p \in Procs : HandlerGetConnTest(p)
    \/ \E p \in Procs : HandlerCutConn(p)
    \/ \E p \in Procs : HandlerAddConn(p)
    \/ \E p \in Procs : HandlerRefused(p)

SpecConn == ConnInit /\ [][ConnNext]_vars

\* The admin creates, edits and deletes tunnels.
TaskNext ==
    \/ \E mode \in TaskModes, password \in Passwords : TunnelAdd(1, mode, password, StrA)
    \/ \E id \in 1..MaxTasks, mode \in TaskModes, password \in Passwords :
          TunnelEdit(id, 1, mode, password, StrA)
    \/ \E id \in 1..MaxTasks : TunnelDel(id)

SpecTask == Init /\ [][TaskNext]_vars

\* The admin creates and edits hosts.
HostNext ==
    \/ \E host \in HostNames, location \in Locations, scheme \in Schemes :
          HostAdd(1, host, location, scheme, StrA)
    \/ \E id \in 1..MaxHosts, host \in HostNames, location \in Locations, scheme \in Schemes :
          HostEdit(id, 1, host, location, scheme, StrA)

SpecHost == Init /\ [][HostNext]_vars

\* Handshakes of new bridge connections while the admin enables and disables agents.
VerifyNext ==
    \/ \E vKey \in VKeys, flag \in Flags : cliProcess(vKey, flag)
    \/ \E id \in Agents, status \in BOOLEAN : ChangeStatus(id, status)
    \/ DealBridgeTaskCloseClient

SpecVerify == Init /\ [][VerifyNext]_vars

\* the config channel: handshakes that ask for it, the loop's messages, the supervisor
ConfigNext ==
    \/ \E k \in VKeys : cliProcess(k, "conf")
    \/ \E p \in ConfPayloads : getConfigNewConf(p)
    \/ \E p \in HostPayloads : getConfigNewHost(p)
    \/ \E p \in TaskPayloads : getConfigNewTask(p)
    \/ getConfigEnd
    \/ DealBridgeTaskCloseClient

SpecConfig == Init /\ [][ConfigNext]_vars

\* the rendezvous: one goroutine per packet
P2PNext ==
    \E pw \in P2PPasswords :
        \/ handleP2PVisitor(pw)
        \/ handleP2PTest(pw)
        \/ handleP2PSleep(pw)
        \/ handleP2PDelete(pw)
        \/ handleP2PProvider(pw)

SpecP2P == Init /\ [][P2PNext]_vars

\* secret connections against a changing tunnel table
SecretNext ==
    \/ \E mode \in TaskModes, password \in Passwords : TunnelAdd(1, mode, password, StrA)
    \/ \E id \in 1..MaxTasks : StopServer(id)
    \/ \E id \in 1..MaxTasks : StartTask(id)
    \/ \E p \in SecretHashes : DealBridgeTaskSecret(p)

SpecSecret == Init /\ [][SecretNext]_vars

\* agents enabled and disabled while sessions and flows come
StatusNext ==
    \/ \E a \in Regular, flag \in {"main", "chan"} : cliProcess(Md5(VerifyKeyOf(a)), flag)
    \/ \E id \in Regular, status \in BOOLEAN : ChangeStatus(id, status)
    \/ DealBridgeTaskCloseClient
    \/ \E f \in FlowIds, id \in Regular, local \in BOOLEAN : DealClient(f, id, AddrA, local, "tcp")
    \/ \E f \in FlowIds : PublicClose(f)

SpecStatus == Init /\ [][StatusNext]_vars

\* the port multiplexer with one connection, whose peer has sent three first
\* bytes and a tail
PmuxInit ==
    /\ BridgeInit
    /\ ipVerify = FALSE
    /\ DbIdle
    /\ ConnIdle
    /\ AuthIdle
    /\ CfgIdle
    /\ P2PIdle
    /\ SecretIdle
    /\ QuotaIdle
    /\ LaterIdle
    /\ \E b1, b2, b3 \in ByteToks, tail \in PmuxTails : pconn = NewPortConnOf(<<b1, b2, b3>> \o tail)

PmuxNext ==
    \/ process
    \/ PmuxTick
    \/ Accept
    \/ PmuxTimeout
    \/ \E size \in ReadSizes : PortConnRead(size)

SpecPmux == PmuxInit /\ [][PmuxNext]_vars

----------------------------------------------------------------------------
(* Claims about sessions, the heartbeat sweep and teardown                 *)

\* a step of the heartbeat sweep
PingStep == pingPhase' # pingPhase

\* C1: a sweep that finds the signal of a session missing removes the session
\* exactly when it is the third sweep in a row to find it missing; after the
\* first and after the second the session is still in the table.
C1_SweepRemovesAtThird ==
    [][\A a \in Agents :
         (PingStep /\ a \in DOMAIN Client /\ Client[a].signal = Nil)
            => /\ sigMiss'[a] \in 1..3
               /\ (a \notin DOMAIN Client') <=> (sigMiss'[a] = 3)]_vars

C1_Witness ==
    \E a \in Agents : a \notin DOMAIN Client /\ sigMiss[a] = 3 /\ [id |-> a, by |-> <<"ping", 0>>] \in closeQ

\* C2: while a channel of a session is missing, the retry counter is the number
\* of sweeps in a row that found signal or tunnel missing, and a sweep tears a
\* session down for a missing channel only as the third such sweep in a row.
C2_CountIsConsecutive ==
    \A a \in DOMAIN Client :
        (Client[a].signal = Nil \/ Client[a].tunnel = Nil) => Client[a].retryTime = runMiss[a]

C2_TornDownOnlyAfterThree ==
    [][\A a \in Agents :
         (PingStep /\ a \in DOMAIN Client /\ a \notin DOMAIN Client'
            /\ (Client[a].signal = Nil \/ Client[a].tunnel = Nil))
            => runMiss'[a] >= 3]_vars

\* C2: both parts together, the counter counts misses in a row and a teardown
\* for a missing channel comes only with the third of them.
C2_ConsecutiveMisses == []C2_CountIsConsecutive /\ C2_TornDownOnlyAfterThree

C2_Witness ==
    \E a \in Agents : /\ a \notin DOMAIN Client
                      /\ runMiss[a] = 3 /\ sigMiss[a] = 0
                      /\ [id |-> a, by |-> <<"ping", 0>>] \in closeQ

\* C3 as claimed: a step that removes a session from the table leaves its
\* signal, its tunnel-mux and its file-mux closed.
C3_TeardownClosesAllThree ==
    [][\A a \in Agents :
         (a \in DOMAIN Client /\ a \notin DOMAIN Client')
            => /\ Client[a].signal # Nil => connSt'[Client[a].signal] = "closed"
               /\ Client[a].tunnel # Nil => mux'[Client[a].tunnel] = "closed"
               /\ Client[a].file # Nil => mux'[Client[a].file] = "closed"]_vars

\* C4 as claimed: a MAIN token for a session that has a signal leaves the
\* previous signal with the close-token written and closed, and the new
\* connection as the session's signal.
C4_ReloginClosesPrevious ==
    [][\A a \in Agents :
         (a \in DOMAIN Client /\ a \in DOMAIN Client'
            /\ Client[a].signal # Nil /\ Client'[a].signal # Client[a].signal)
            => /\ closeTok'[Client[a].signal]
               /\ connSt'[Client[a].signal] = "closed"
               /\ Client'[a].signal # Nil
               /\ connSt'[Client'[a].signal] = "open"]_vars

\* a mux of the session reports closed
TunnelClosed(v) == v.tunnel # Nil /\ mux[v.tunnel] = "closed"
FileClosed(v) == v.file # Nil /\ mux[v.file] = "closed"

\* C6 as claimed: a sweep removes every session whose tunnel-mux or file-mux
\* reports closed.
C6_EitherMuxClosed ==
    [][\A a \in Agents :
         (PingStep /\ a \in DOMAIN Client
            /\ (TunnelClosed(Client[a]) \/ FileClosed(Client[a])))
            => a \notin DOMAIN Client']_vars

\* C6 amended: a sweep removes every session that has a signal and whose
\* tunnel-mux reports closed, whatever its retry counter.
C6_TunnelMuxClosed ==
    [][\A a \in Agents :
         (PingStep /\ a \in DOMAIN Client
            /\ Client[a].signal # Nil /\ TunnelClosed(Client[a]))
            => a \notin DOMAIN Client']_vars

C6_Witness ==
    \E a \in Agents : /\ a \notin DOMAIN Client
                      /\ runMiss[a] = 0
                      /\ [id |-> a, by |-> <<"ping", 0>>] \in closeQ

----------------------------------------------------------------------------
(* Claims about flows and link opening                                     *)

\* every health loop has noticed the end of its connection and the supervisor
\* has received every CloseClient event
Quiescent ==
    /\ closeQ = {}
    /\ \A c \in ConnIds : health[c] # Nil => ~ReadFails(c)

\* C5 as claimed: once the signal has dropped under an open flow of the agent's
\* tcp tunnel and a heartbeat window has passed (two sweeps have run and the
\* server has nothing left to do for the drop), the flow's public socket is closed.
C5_FlowClosedWithinWindow ==
    \A f \in FlowIds : (dropAge[f] >= 2 /\ Quiescent) => flow[f].st # "open"

\* a peer with the IP of addr has registered, with an expiry in the future
IpRegistered(addr) ==
    /\ HostOf(addr) \in DOMAIN regIp
    /\ regIp[HostOf(addr)] > now

\* C8 as claimed, for the links that do not take the local-proxy path: with
\* ip_verify on, a link whose remote IP is not registered, or is registered with
\* an expiry that is not in the future, gets an error and nothing is opened.
C8_UnregisteredIpRejected ==
    [][\A f \in FlowIds :
         (flow[f].st = "none" /\ flow'[f].st # "none" /\ ipVerify
            /\ ~flow'[f].local /\ ~IpRegistered(flow'[f].raddr))
            => flow'[f].st = "closed" /\ flow'[f].via = "none"]_vars

----------------------------------------------------------------------------
(* Claims about the repository and the connection counter                  *)

\* a step of GetRandomTarget
GetStep == getPhase' # getPhase

\* C7 as claimed: while the last report ingested from an agent for target t is
\* status=false, GetRandomTarget on a tunnel or host of that agent whose target
\* string contains t does not return t.
C7_DownTargetNotReturned ==
    [][\A id \in Agents, t \in Infos :
         (GetStep /\ <<id, t>> \in down /\ got'.owner = id /\ Contains(got'.str, t))
            => ~(~got'.err /\ got'.val = t)]_vars

\* C9 as claimed: with max_conn = M > 0, at most M flows are admitted and not
\* yet closed.
C9_AdmittedWithinMaxConn ==
    MaxConn > 0 => Cardinality({p \in Procs : pc[p] = "open"}) <= MaxConn

\* C10 as claimed: no two distinct tunnels of mode secret or p2p have the same
\* mode and password.
C10_SecretPasswordUnique ==
    \A i, j \in DOMAIN Tasks :
        (i # j /\ Tasks[i].Mode \in {"secret", "p2p"} /\ Tasks[i].Mode = Tasks[j].Mode)
            => Tasks[i].Password # Tasks[j].Password

\* two schemes conflict: they are equal, or one of them is "all"
SchemesConflict(a, b) == a = b \/ a = "all" \/ b = "all"

\* C11 as claimed: no two distinct hosts have the same host name and the same
\* location with conflicting schemes.
C11_HostRouteUnique ==
    \A i, j \in DOMAIN Hosts :
        (i # j /\ Hosts[i].Host = Hosts[j].Host /\ Hosts[i].Location = Hosts[j].Location)
            => ~SchemesConflict(Hosts[i].Scheme, Hosts[j].Scheme)

\* the connection that a handshake step takes, when the step is a refusal
Refused(c) == ~verifyEer[c] /\ verifyEer'[c]

\* C12 as claimed: a handshake whose verify-key resolves to no enabled agent
\* leaves the connection with VERIFY_ERROR written and closed, and no work-type
\* token dispatched (no session entry, mux or health loop made for it).
C12_BadKeyRefusedAndClosed ==
    [][\A c \in ConnIds :
         Refused(c) => /\ connSt'[c] = "closed"
                       /\ Client' = Client
                       /\ mux'[c] = "none"
                       /\ health'[c] = Nil]_vars

\* C13: once a NEW_CONF, NEW_HOST or NEW_TASK message has failed, the fail
\* token has been written, the loop has returned, and (as soon as the
\* supervisor has taken every pending CloseClient) the loop's agent is gone
\* from the repository
C13_FailureEndsLoopAndDeletesAgent ==
    cfgErr.failed =>
        /\ failTok
        /\ cfgPc = "done"
        /\ (closeQ = {} => cfgErr.agent \notin DOMAIN Clients)

\* C14: when the visitor's goroutine has ended and the provider's packet came
\* before the visitor's or less than 20 seconds after it, each side has been
\* sent the other's address and the map has no entry for the password
C14_PairedWithinWindow ==
    \A pw \in P2PPasswords :
        (vpc[pw] = "done" /\ provided[pw] \in {"first", "intime"}) =>
            /\ <<VisitorAddr, ProviderAddr>> \in udpOut
            /\ <<ProviderAddr, VisitorAddr>> \in udpOut
            /\ pw \notin DOMAIN p2p

\* the SOCKS5 service
SocksNext ==
    \/ \E cfg \in {"none", "cnf", "multi"} : NewSock5ModeServer(cfg)
    \/ \E c \in SocksConns, version \in {4, 5} : handleConn(c, version)
    \/ \E c \in SocksConns, user \in SocksUsers, pass \in SocksPasses : Auth(c, user, pass)
    \/ \E c \in SocksConns, cmd \in {connectMethod, bindMethod, associateMethod, 9} :
          handleRequest(c, cmd)

SpecSocks == Init /\ [][SocksNext]_vars

\* the HTTPS server
HttpsNext ==
    \/ \E defaultCert \in BOOLEAN : HttpsStart(defaultCert)
    \/ \E c \in HttpsConns, serverName \in ServerNames : httpsAccept(c, serverName)
    \/ \E c \in HttpsConns, known, certs \in BOOLEAN : httpsLoad(c, known, certs)
    \/ \E c \in HttpsConns : httpsCreate(c)
    \/ \E c \in HttpsConns : httpsFeed(c)

SpecHttps == Init /\ [][HttpsNext]_vars

\* the HTTP host proxy
WebNext ==
    \/ \E c \in WebConns, keep \in BOOLEAN : handleHttpOpen(c, keep)
    \/ \E c \in WebConns : handleHttpLoop(c)
    \/ \E c \in WebConns, more, keep \in BOOLEAN : handleHttpRead(c, more, keep)
    \/ \E c \in WebConns, n \in RespLens : handleHttpResponse(c, n)
    \/ \E c \in WebConns : handleHttpEnd(c)

SpecWeb == Init /\ [][WebNext]_vars

\* the rate limiter
RateNext ==
    \/ \E addSize \in 1..MaxRate : NewRate(addSize)
    \/ RateSession
    \/ \E size \in 1..MaxRate : RateGet(size)
    \/ \E size \in 1..MaxRate : ReturnBucket(size)

SpecRate == Init /\ [][RateNext]_vars

\* NEW_TASK with its port list
PortsNext ==
    \/ \E held \in {{}, {1}} : getConfigHeld(held)
    \/ \E mode \in {"tcp", "udp", "secret"}, p, t \in PortLists, free \in BOOLEAN :
          getConfigTask(mode, p, t, free)

SpecPorts == Init /\ [][PortsNext]_vars

\* host lookup by name
HostMatchNext == \E host \in RequestHosts : GetInfoByHost(host)

SpecHostMatch == Init /\ [][HostMatchNext]_vars

\* the agent-side prober
ProbeNext ==
    \/ \E maxFail \in 1..MaxHealthFail : HealthStart(maxFail)
    \/ \E oks \in [ProbeTargets -> BOOLEAN] : check(oks)

SpecProbe == Init /\ [][ProbeNext]_vars

\* Sessions and their teardown, the admin's deletion of an agent included; a
\* connection reaches typeDeal only with the key of an agent of the repository
TeardownNext ==
    \/ \E id \in Agents : id \in DOMAIN Clients /\ typeDealMain(id)
    \/ \E id \in Regular : id \in DOMAIN Clients /\ typeDealChan(id)
    \/ \E c \in ConnIds : PeerDrop(c)
    \/ \E c \in ConnIds : GetHealthFromClientEnd(c)
    \/ \E id \in Regular : DelClientConnect(id)
    \/ \E id \in Regular : ClientControllerDel(id)
    \/ DealBridgeTaskCloseClient
    \/ ping

SpecTeardown == Init /\ [][TeardownNext]_vars

\* one tunnel under health reports and target reads
LockNext ==
    \/ \E str \in TargetStrs : lbNewTask(str)
    \/ \E info \in Infos, status \in BOOLEAN : lbHealthLock(info, status)
    \/ lbHealthApply
    \/ lbGetEnter
    \/ lbGetCheck
    \/ lbGetLock
    \/ lbGetIndex

SpecLock == Init /\ [][LockNext]_vars

\* a copy pair; the pool runs every task handed to it
CopyNext ==
    \/ copyConns
    \/ \E d \in CopyDirs, outcome \in CopyOutcomes : CopyBuffer(d, outcome)
    \/ \E d \in CopyDirs : copyConnGroup(d)
    \/ copyConnsJoin

SpecCopy ==
    /\ Init /\ [][CopyNext]_vars
    /\ \A d \in CopyDirs : WF_vars(\E outcome \in CopyOutcomes : CopyBuffer(d, outcome))
    /\ \A d \in CopyDirs : WF_vars(copyConnGroup(d))
    /\ WF_vars(copyConnsJoin)

\* the agent-side health scheduler, started at any half second of the first
\* second with one or two configs
SchedNext ==
    \/ HealthTick
    \/ \E n \in HealthConfigs : \E iv \in [1..n -> HealthIntervals] : heathCheck(iv)
    \/ sessionPop
    \/ sessionTimer

SpecSched == Init /\ [][SchedNext]_vars

\* a limiter whose refill task runs, used by one connection that moves up to
\* one more byte than the largest bucket holds
RateWaitNext ==
    \/ \E addSize \in 1..MaxRate : NewRate(addSize)
    \/ RateSession
    \/ \E size \in 1..(2 * MaxRate + 1) : RateGetCall(size)
    \/ RateGetReturn

SpecRateWait ==
    /\ Init /\ [][RateWaitNext]_vars
    /\ WF_vars(RateSession)
    /\ WF_vars(RateGetReturn)

\* a limiter with its refill task, two getters, and tokens given back
RateRaceNext ==
    \/ \E addSize \in 1..MaxRate : NewRate(addSize)
    \/ RateSession
    \/ \E x \in RateGetters, size \in 1..MaxRate : RateGetTest(x, size)
    \/ \E x \in RateGetters : RateGetTake(x)
    \/ \E size \in 1..MaxRate : ReturnBucket(size)

SpecRateRace == Init /\ [][RateRaceNext]_vars

\* the port multiplexer from its start to after its close
MuxNext ==
    \/ \E c \in MuxConns : PortMuxStartAccept(c)
    \/ PortMuxStartErr
    \/ PortMuxClose
    \/ \E c \in MuxConns, a \in MuxAccepts : processSend(c, a)
    \/ \E c \in MuxConns : processSendClosed(c)
    \/ \E c \in MuxConns : processTimeout(c)
    \/ \E a \in MuxAccepts : PortListenerAccept(a)
    \/ \E a \in MuxAccepts : PortListenerWake(a)

\* the goroutines run on: the loop's round on the closed listener, the
\* selects of the tasks, the receives of the blocked Accepts
SpecMux ==
    /\ Init /\ [][MuxNext]_vars
    /\ WF_vars(PortMuxStartErr)
    /\ \A c \in MuxConns : WF_vars(processSendClosed(c) \/ processTimeout(c))
    /\ \A a \in MuxAccepts : WF_vars(PortListenerWake(a))

\* HTTP proxy connections whose requests name the hosts of two agents
HttpCountNext ==
    \/ \E c \in HttpConnIds, h \in HttpHosts, flowOver, linkOk \in BOOLEAN :
          handleHttpEnter(c, h, flowOver, linkOk)
    \/ \E c \in HttpConnIds, h \in HttpHosts, flowOver, linkOk \in BOOLEAN :
          handleHttpRequest(c, h, flowOver, linkOk)
    \/ \E c \in HttpConnIds : handleHttpReturn(c)

SpecHttpCount == Init /\ [][HttpCountNext]_vars

\* the first three ASCII bytes of the recognised HTTP methods, and the
\* agent-classification token
MethodPrefixes ==
    { <<"G", "E", "T">>, <<"P", "O", "S">>, <<"H", "E", "A">>, <<"P", "U", "T">>,
      <<"D", "E", "L">>, <<"C", "O", "N">>, <<"O", "P", "T">>, <<"T", "R", "A">> }
AgentToken == <<"T", "S", "T">>

\* C15: a classified connection took the HTTP/admin path only if its first
\* three bytes begin an HTTP method, the bridge channel only if they are the
\* agent token, and the HTTPS channel for every other prefix
C15_DispatchByPrefix ==
    pconn.pc # "new" =>
        LET buf == SubSeq(pconn.sent, 1, 3) IN
        /\ pconn.ch \in {"manager", "http"} => buf \in MethodPrefixes
        /\ pconn.ch = "client" => buf = AgentToken
        /\ buf \notin MethodPrefixes \cup {AgentToken} => pconn.ch = "https"

\* C16: what the reader of an accepted connection has read is a prefix of
\* what the peer sent
C16_ReadIsSentPrefix ==
    /\ Len(pconn.out) <= Len(pconn.sent)
    /\ pconn.out = SubSeq(pconn.sent, 1, Len(pconn.out))

\* C17: a connection is dropped only after 10 seconds without a handoff, and
\* a dropped connection is closed
C17_DroppedAfterTenSeconds ==
    pconn.pc = "dropped" =>
        /\ pconn.waited \div Second >= ACCEPT_TIME_OUT
        /\ pconn.closed

\* a step that handles a secret connection
SecretStep == secret'.phase # secret.phase

\* C18: a secret connection is forwarded only if an enabled tunnel of mode
\* secret has the presented hash, and is closed otherwise
C18_SecretNeedsSecretTunnel ==
    [][SecretStep =>
          /\ secret'.fwd =>
                \E i \in DOMAIN Tasks :
                    /\ Tasks[i].Mode = "secret"
                    /\ Md5(Tasks[i].Password) = secret'.hash
                    /\ Tasks[i].Status
          /\ ~secret'.fwd => secret'.closed]_vars

\* C19: a flow admitted while its agent is disabled is closed, not forwarded
C19_DisabledAgentNotForwarded ==
    [][\A f \in FlowIds :
          (flow[f].st = "none" /\ flow'[f].st # "none" /\ ~Clients[flow'[f].agent].Status)
              => flow'[f].st = "closed"]_vars

\* C20: with a quota set and the traffic at or over it, no handler admits a flow
C20_QuotaReachedRejects ==
    (FlowLimit > 0 /\ FlowUsed >= FlowLimit * 2^20) =>
        \A p \in Procs : pc[p] \notin {"cut", "open"}

\* C21: a connection whose login was rejected got the two bytes 1, 1 as the
\* last thing written to it and is closed
C21_RejectedLoginAnswered ==
    \A c \in SocksConns :
        socks.conn[c].rejected =>
            /\ socks.conn[c].st = "closed"
            /\ socks.conn[c].out # <<>>
            /\ socks.conn[c].out[Len(socks.conn[c].out)] = <<1, 1>>

\* C22: a connection whose request was BIND got a command-not-supported
\* reply as the last thing written to it
C22_BindNotSupported ==
    \A c \in SocksConns :
        socks.conn[c].cmd = bindMethod =>
            /\ socks.conn[c].out # <<>>
            /\ socks.conn[c].out[Len(socks.conn[c].out)] = <<5, 7, 0, 1>>

\* C23: no server name ever has more than one listener made for it, and a
\* connection handed over while its server name has a listener went to that
\* listener
C23_OneListenerPerName ==
    /\ \A k \in ListenerKeys : https.made[k] <= 1
    /\ \A c \in HttpsConns :
          (https.h[c].pc = "done" /\ https.map[https.h[c].name] # 0)
              => https.h[c].fed = https.map[https.h[c].name]

\* C24: once two requests are answered and the second came from the cache,
\* one upstream stream was opened in all and the outbound counter holds the
\* bytes of both responses
C24_OneStreamCountedTwice ==
    (web.answered = 2 /\ web.hits = 1) =>
        /\ web.streams = 1
        /\ web.out = web.written

\* C25: right after a Get of n tokens and a ReturnBucket of n tokens the
\* bucket holds the tokens it held before the Get
C25_ReturnRestores ==
    rate.pc = "returned" => rate.bucketSurplusSize = rate.before

\* C26 as stated: a tcp or udp request that got the success token has as
\* many ports as targets, and one whose counts differ got the fail token and
\* stored no tunnel
C26_CountsAgree ==
    (nt.pc = "done" /\ nt.mode \in {"tcp", "udp"}) =>
        /\ nt.reply = "ok" => nt.np = nt.ntg
        /\ nt.np # nt.ntg => (nt.reply = "fail" /\ nt.made = <<>>)

\* C26, amended: the same for the tcp and udp requests whose port list
\* expands to more than one port
C26_MultiPortCountsAgree ==
    (nt.pc = "done" /\ nt.mode \in {"tcp", "udp"} /\ nt.np > 1) =>
        /\ nt.reply = "ok" => nt.np = nt.ntg
        /\ nt.np # nt.ntg => (nt.reply = "fail" /\ nt.made = <<>>)

\* a tcp request of two ports and two targets stored its two tunnels
C26_Witness ==
    /\ nt.pc = "done" /\ nt.mode = "tcp"
    /\ nt.np = 2 /\ nt.ntg = 2
    /\ nt.reply = "ok" /\ Len(nt.made) = 2

\* C27: the host *.a.com is found for a request host exactly when the
\* request host ends with .a.com
C27_WildcardMatchesSubdomains ==
    hm.pc = "done" =>
        (hm.found <=>
            /\ Len(hm.host) >= 4
            /\ SubSeq(hm.host, Len(hm.host) - 3, Len(hm.host)) = <<".", "a", ".", "com">>)

\* C28: a status 0 is sent for a target only when its failed probes in a row
\* are a positive multiple of HealthMaxFail, and the first success after a
\* status 0 sends status 1
C28_FalseAtMultiples ==
    \A v \in ProbeTargets :
        /\ hc.t[v].msg = "0" =>
              (hc.t[v].run > 0 /\ hc.t[v].run % hc.HealthMaxFail = 0)
        /\ hc.t[v].back => hc.t[v].msg = "1"

\* C29: every step that removes the session of a non-public agent puts a
\* CloseClient event for that agent on the channel, and a step that removes
\* the session of a public agent puts none
C29_TeardownPushesEvent ==
    [][\A id \in Agents :
          (id \in DOMAIN Client /\ id \notin DOMAIN Client') =>
              IF IsPubClient(id)
              THEN \A e \in closeQ' \ closeQ : e.id # id
              ELSE \E e \in closeQ' \ closeQ : e.id = id]_vars

\* C30: the health reader is never between its Lock and Unlock while
\* GetRandomTarget is reading TargetArr or the index
C30_MutuallyExclusive ==
    ~(lb.hpc = "locked" /\ lb.gpc \in {"entered", "locked"})

C32_DisplacedReaderSparesSession ==
    [][\A c \in ConnIds :
          (/\ health[c] # Nil
           /\ health'[c] = Nil
           /\ health[c] \in DOMAIN Client
           /\ Client[health[c]].signal \notin {Nil, c}
           /\ connSt[Client[health[c]].signal] = "open")
          => (/\ health[c] \in DOMAIN Client'
              /\ connSt'[Client[health[c]].signal] = "open")]_vars

\* the configured target list of a target string
ConfiguredTargets(str) == TrimArr(Split(str))

\* C33: an address GetRandomTarget returns is an entry of the configured
\* target list, and while the last report for every configured target is
\* status=false it returns an error and no address
C33_ReturnsConfiguredTarget ==
    [][GetStep =>
          /\ ~got'.err => IsArrContains(ConfiguredTargets(got'.str), got'.val)
          /\ (\A k \in 1..Len(ConfiguredTargets(got'.str)) :
                  <<got'.owner, ConfiguredTargets(got'.str)[k]>> \in down)
                => (got'.err /\ got'.val = <<>>)]_vars

\* C34: the scheduling loop of a scheduler that has a config never ends
C34_NeverStops == hs.pc # "stopped"

\* C35: a Get that was called returns
C35_GetReturns == (rate.want > 0) ~> (rate.want = 0)

\* the rendezvous service whose started visitor goroutines run on: the loop's
\* test, its sleep and the delete after it are steps of a goroutine the
\* scheduler keeps running; packets arrive or not as the peers choose
SpecP2PFair ==
    /\ Init /\ [][P2PNext]_vars
    /\ \A pw \in P2PPasswords :
          /\ WF_vars(handleP2PTest(pw))
          /\ WF_vars(handleP2PSleep(pw))
          /\ WF_vars(handleP2PDelete(pw))

\* C36: every entry of the rendezvous map is removed in the end, the entry
\* only a provider registered and the entry whose wait expired included
C36_EntryEventuallyRemoved ==
    \A pw \in P2PPasswords : (pw \in DOMAIN p2p) ~> (pw \notin DOMAIN p2p)

\* C37: after the multiplexer is closed the accept loop goes round no more,
\* no classification task sends on a closed channel, and every Accept blocked
\* on a sub-listener returns
C37_CloseStopsAll ==
    /\ [][mx.isClose => mx'.rounds = mx.rounds]_vars
    /\ [](\A c \in MuxConns : mx.p[c] # "panic")
    /\ \A a \in MuxAccepts : (mx.isClose /\ mx.a[a] = "blocked") ~> (mx.a[a] # "blocked")

\* C38: the tokens in the bucket of a limiter are never fewer than 0 and
\* never more than the bucket size, whatever the order of refills, consumes
\* and returns
C38_BucketWithinBounds ==
    rate.pc # "none" =>
        /\ rate.bucketSurplusSize >= 0
        /\ rate.bucketSurplusSize <= rate.bucketSize

\* C39: NowConn of an agent is the number of its flows that were admitted
\* and are not closed: never negative, and 0 when all flows have ended, also
\* for a connection whose requests name hosts of different agents
C39_NowConnCountsOpenFlows ==
    \A a \in HttpAgents :
        /\ hh.now[a] = Cardinality({c \in HttpConnIds : hh.c[c].flow = a})
        /\ hh.now[a] >= 0
        /\ (\A c \in HttpConnIds : hh.c[c].pc = "done") => hh.now[a] = 0

\* how often val is an entry of arr
ArrCount(arr, val) == Cardinality({k \in 1..Len(arr) : arr[k] = val})

\* TargetArr and HealthRemoveArr of v share no entry, and neither holds an
\* entry more often than the configured list does
ArrsConsistent(v) ==
    \A k \in 1..(Len(v.Target.TargetArr) + Len(v.HealthRemoveArr)) :
        LET t == (v.Target.TargetArr \o v.HealthRemoveArr)[k]
            n == ArrCount(ConfiguredTargets(v.Target.TargetStr), t)
        IN /\ ~(IsArrContains(v.Target.TargetArr, t) /\ IsArrContains(v.HealthRemoveArr, t))
           /\ ArrCount(v.Target.TargetArr, t) <= n
           /\ ArrCount(v.HealthRemoveArr, t) <= n

\* C40: after any sequence of health reports, TargetArr and HealthRemoveArr
\* of every tunnel and host are disjoint and hold no target more often than
\* the configured target list
C40_ArrsDisjointAndBounded ==
    /\ \A i \in DOMAIN Tasks : ArrsConsistent(Tasks[i])
    /\ \A j \in DOMAIN Hosts : ArrsConsistent(Hosts[j])

====
